---- MODULE Spec2Model ----
(***************************************************************************)
(* Streaming transcription pipeline of the Discord recording bot.          *)
(*                                                                         *)
(*   src/utils/streamingTranscription.js   Transcription Session           *)
(*       (createStreamingTranscriber, connectAudioStream,                  *)
(*        stopStreamingTranscription, activeTranscribers)                  *)
(*   src/unnamed/part_005 (756-1051)       Session Registry                *)
(*       (startStreamingSession, stopStreamingSession,                     *)
(*        getCurrentStreamingStatus, activeStreamingSessions)              *)
(*   src/unnamed/part_004 (89-318)         /join command                   *)
(*   src/utils/transcription.js            requests to the transcription   *)
(*       API and their counter (concurrentRequests)                        *)
(*   src/utils/cleanup.js                  scheduled cleanup of files      *)
(*       (scheduleCleanup, cancelScheduledCleanup)                         *)
(*                                                                         *)
(* The process is single threaded: a handler runs from the event that      *)
(* starts it to its next await on I/O or on a timer.  The continuation of  *)
(* an await on a promise that a handler settles runs as a microtask, i.e.  *)
(* before the next I/O event, so it belongs to the action of that handler. *)
(* The environment invokes the exported operations and the two commands    *)
(* and delivers the WebSocket events.                                      *)
(*                                                                         *)
(* config.recording.saveToDisk (src/unnamed/part_000, line 52, set from    *)
(* SAVE_RECORDINGS) is fixed for a run of the process.  When it is set,    *)
(* createStreamingTranscriber awaits fsp.mkdir before it attaches the      *)
(* socket handlers, and stopStreamingTranscription awaits finalizeWavFile  *)
(* before it deletes the session and builds the final transcript.          *)
(***************************************************************************)
EXTENDS Integers, Sequences, FiniteSets, TLC

\* ------------------------------------------------------------------ bounds
MaxStarts == 2         \* invocations of /join and of startStreamingSession
MaxStops == 2          \* invocations of /stop and of the two stop operations
MaxTurns == 2          \* Turn messages delivered on one socket
MaxUserOps == 2        \* invocations of the add and remove participant operations
MaxFinalizes == 1      \* invocations of finalizeWavFile
MaxRawChanges == 1     \* changes of a raw file while its finalization is suspended
MaxRmsCalls == 1       \* invocations of computeRms
MaxFrameBytes == 4     \* bytes of a PCM frame handed to computeRms
MaxSchedules == 2      \* invocations of scheduleCleanup
MaxCancels == 1        \* invocations of cancelScheduledCleanup
MaxTracked == 1        \* files tracked at a time
MaxRemovals == 1       \* invocations of the exported removal operations
MaxClock == 2          \* readings of Date.now() taken by scheduleCleanup
MaxRequests == 3       \* invocations of upload, transcription request and poll
MaxConcurrent == 2     \* config.assemblyAI.maxConcurrent, taken small

SessionIds == {"s1", "s2"}
UserIdLists == {<<"u1", "u2">>}
UserIds == {"u1", "u2"}

\* ------------------------------------------------------- strings as char seqs
IsSpace(c) == c = " "

RECURSIVE TrimStart(_)
TrimStart(s) ==
  IF s = <<>> THEN s
  ELSE IF IsSpace(Head(s)) THEN TrimStart(Tail(s)) ELSE s

RECURSIVE TrimEnd(_)
TrimEnd(s) ==
  IF s = <<>> THEN s
  ELSE IF IsSpace(s[Len(s)]) THEN TrimEnd(SubSeq(s, 1, Len(s) - 1)) ELSE s

\* String.prototype.trim
Trim(s) == TrimEnd(TrimStart(s))

\* Array.prototype.join(' ')
RECURSIVE JoinSpace(_)
JoinSpace(ts) ==
  IF ts = <<>> THEN <<>>
  ELSE IF Len(ts) = 1 THEN ts[1]
  ELSE ts[1] \o <<" ">> \o JoinSpace(Tail(ts))

RECURSIVE SumSeq(_)
SumSeq(ns) == IF ns = <<>> THEN 0 ELSE Head(ns) + SumSeq(Tail(ns))

\* ------------------------------------------------------ inbound Turn messages
\* A Turn message: its transcript, its turn_order, its optional words[]
\* array, its optional end_of_turn_confidence (in hundredths) and its
\* speaker (participant_id || speaker || speaker_label; "" when absent).
TurnMessages ==
  { [transcript |-> <<"a">>, turn_order |-> 0, hasWords |-> TRUE, words |-> <<"a">>,
     hasConfidence |-> TRUE, end_of_turn_confidence |-> 90, speaker |-> "A"],
    [transcript |-> <<"a", " ", "b">>, turn_order |-> 1, hasWords |-> FALSE, words |-> <<>>,
     hasConfidence |-> TRUE, end_of_turn_confidence |-> 0, speaker |-> "B"],
    [transcript |-> <<" ", "b">>, turn_order |-> 2, hasWords |-> TRUE, words |-> <<"b">>,
     hasConfidence |-> FALSE, end_of_turn_confidence |-> 0, speaker |-> ""],
    [transcript |-> <<" ">>, turn_order |-> 1, hasWords |-> FALSE, words |-> <<>>,
     hasConfidence |-> TRUE, end_of_turn_confidence |-> 100, speaker |-> "C"],
    [transcript |-> <<>>, turn_order |-> 0, hasWords |-> FALSE, words |-> <<>>,
     hasConfidence |-> FALSE, end_of_turn_confidence |-> 0, speaker |-> ""] }

\* message.transcript && message.transcript.trim() !== ''
TurnAccepted(m) == m.transcript # <<>> /\ Trim(m.transcript) # <<>>

\* the transcriptEntry pushed for an accepted Turn: words: message.words || []
\* (confidence is a number exactly when the message carries one)
TranscriptEntry(m) ==
  [text |-> m.transcript, turnOrder |-> m.turn_order,
   words |-> IF m.hasWords THEN m.words ELSE <<>>,
   hasConfidence |-> m.hasConfidence, confidence |-> m.end_of_turn_confidence,
   speakerId |-> m.speaker]

\* lines 141-149: the speaker of an accepted Turn is entered in
\* transcriptionData.participants
RegisterSpeaker(participants, m) ==
  IF m.speaker # "" THEN participants \cup {m.speaker} ELSE participants

\* a push that puts the new entry in front of the list
PushTranscript_Front(list, m) == <<TranscriptEntry(m)>> \o list

\* transcriptionData.transcripts.push(transcriptEntry)
PushTranscript(list, m) == Append(list, TranscriptEntry(m))

\* ---------------------------------------------------------------- state
\* the transcript ids the service hands out
TranscriptIds == {"t1", "t2"}

\* the file paths handed to the cleanup
Files == {"f1", "f2"}

VARIABLES
  ws,                       \* the WebSocket objects with their transcriptionData
  activeTranscribers,       \* streamingTranscription.js: sessionId -> socket (0: absent)
  activeStreamingSessions,  \* part_005: the Map, in insertion order
  calls,                    \* invocations of operations and commands
  concurrentRequests,       \* transcription.js: the counter of line 12
  activeTranscriptions,     \* transcription.js: the Map of line 11, id -> status
  cleanupTasks,             \* cleanup.js: the array of line 13
  cleanupTimers,            \* cleanup.js: the timers set by scheduleCleanup
  trackedFiles,             \* cleanup.js: the Set of line 12, in insertion order
  removals,                 \* cleanup.js: the removeFiles runs and their removeFile calls
  disk,                     \* the files that exist
  saveToDisk                \* config.recording.saveToDisk (SAVE_RECORDINGS)

requestVars == <<concurrentRequests, activeTranscriptions>>
cleanupVars == <<cleanupTasks, cleanupTimers, trackedFiles, removals, disk>>
sessionVars == <<ws, activeTranscribers, activeStreamingSessions>>

vars == <<ws, activeTranscribers, activeStreamingSessions, calls,
          concurrentRequests, activeTranscriptions,
          cleanupTasks, cleanupTimers, trackedFiles, removals, disk, saveToDisk>>

Sockets == 1..Len(ws)
Calls == 1..Len(calls)

StartKinds == {"join", "start"}
StopKinds == {"stopCommand", "stopSession", "stopTranscription"}
UserOpKinds == {"addUser", "removeUser"}
Invoked(kinds) == Cardinality({p \in Calls : calls[p].kind \in kinds})

\* new WebSocket(...) and the transcriptionData initialised next to it
\* (lines 58-77).  Without recording to disk the promise, the 10 s timer
\* and the handlers (104-194) are set up in the same turn of the event
\* loop; with it (record) createStreamingTranscriber first awaits
\* fsp.mkdir (line 87) and the socket has no handler and no timer until
\* AttachHandlers.  listening: the handlers are attached.  timeout: the
\* 10 s handshake timer is armed.  recording: data.recording is set.  The
\* remaining fields record what the environment did on the socket:
\* beginSeen (the service sent Begin), terminationSeen, received (every
\* Turn message delivered to the handler), terminates (Terminate control
\* messages written to the socket), timedOut (the handshake timer fired),
\* errored (the socket failed: its receiver delivers nothing more),
\* closeFrameReceived (the service sent its close frame, the last frame
\* the receiver takes).
NewSocket(sid, record) ==
  [sessionId |-> sid, readyState |-> "CONNECTING", isConnected |-> FALSE,
   transcripts |-> <<>>, participants |-> {},
   promise |-> "pending", timeout |-> ~record, listening |-> ~record,
   recording |-> FALSE,
   timedOut |-> FALSE, beginSeen |-> FALSE, terminationSeen |-> FALSE,
   received |-> <<>>, terminates |-> 0, errored |-> FALSE,
   closeFrameReceived |-> FALSE]

\* createStreamingTranscriber after `await fsp.mkdir` (lines 92-194): the
\* write stream of the raw file is created, data.recording is set, the
\* timer is armed and the handlers are attached
AttachHandlers(w, s) ==
  [w EXCEPT ![s].recording = TRUE, ![s].timeout = TRUE, ![s].listening = TRUE]

\* the await a start is suspended at after the socket was created
AfterNewSocket(record) == IF record THEN "mkdir" ELSE "handshake"

\* results of calls
Result(k) ==
  [kind |-> k, error |-> "", sock |-> 0, combinedText |-> <<>>, totalWords |-> 0,
   participantCount |-> 0, averageConfidence |-> [num |-> 0, den |-> 1],
   turns |-> <<>>, recv |-> <<>>, userStreams |-> {}]
NoResult == Result("none")
Threw(e) == [Result("threw") EXCEPT !.error = e]

NewCall(k, pc, sid, users) ==
  [kind |-> k, pc |-> pc, sid |-> sid, users |-> users, sock |-> 0,
   result |-> NoResult]

Init ==
  /\ ws = <<>>
  /\ activeTranscribers = [sid \in SessionIds |-> 0]
  /\ activeStreamingSessions = <<>>
  /\ calls = <<>>
  /\ concurrentRequests = 0
  /\ activeTranscriptions = [id \in TranscriptIds |-> "absent"]
  /\ cleanupTasks = <<>>
  /\ cleanupTimers = <<>>
  /\ trackedFiles = <<>>
  /\ removals = <<>>
  /\ disk = Files
  /\ saveToDisk \in BOOLEAN

\* ------------------------------------------------------ Session Registry
Range(f) == {f[i] : i \in DOMAIN f}

\* Map.prototype.set: an existing key keeps its place, a new one goes last
MapSet(reg, info) ==
  IF \E i \in DOMAIN reg : reg[i].sessionId = info.sessionId
  THEN [i \in DOMAIN reg |-> IF reg[i].sessionId = info.sessionId THEN info ELSE reg[i]]
  ELSE Append(reg, info)

\* Map.prototype.delete
MapDelete(reg, sid) == SelectSeq(reg, LAMBDA e : e.sessionId # sid)

IsActive(e) == e.active

\* getCurrentStreamingStatus(): the last active session of the Map, or null
getCurrentStreamingStatus ==
  LET activeSessions == SelectSeq(activeStreamingSessions, IsActive) IN
  IF Len(activeSessions) = 0
  THEN [found |-> FALSE, sessionId |-> "none", participants |-> 0, active |-> FALSE]
  ELSE LET currentSession == activeSessions[Len(activeSessions)] IN
       [found |-> TRUE, sessionId |-> currentSession.sessionId,
        participants |-> Cardinality(currentSession.userStreams),
        active |-> currentSession.active]

\* -------------------------------------------------- Transcription Session
TextOf(t) == t.text
WordsLength(t) == Len(t.words)

\* the combined text without the final trim
CombinedText_Untrimmed(transcripts) == JoinSpace([i \in DOMAIN transcripts |-> TextOf(transcripts[i])])

\* data.transcripts.map(t => t.text).join(' ').trim()
CombinedText(transcripts) == Trim(JoinSpace([i \in DOMAIN transcripts |-> TextOf(transcripts[i])]))

\* data.transcripts.reduce((count, t) => count + (t.words?.length || 0), 0)
WordCount(transcripts) == SumSeq([i \in DOMAIN transcripts |-> WordsLength(transcripts[i])])

HasConfidence(t) == t.hasConfidence

\* an average taken over all the turns of the list
AverageConfidence_OverAllTurns(list) ==
  LET confidences == SelectSeq(list, HasConfidence) IN
  IF Len(list) > 0
  THEN [num |-> SumSeq([i \in DOMAIN confidences |-> confidences[i].confidence]),
        den |-> Len(list)]
  ELSE [num |-> 0, den |-> 1]

\* lines 518-519: the confidences that are numbers, their sum divided by
\* their number, or 0 when there is none.  The quotient is kept as the
\* fraction num/den (in hundredths), not rounded.
AverageConfidence(list) ==
  LET confidences == SelectSeq(list, HasConfidence) IN
  IF Len(confidences) > 0
  THEN [num |-> SumSeq([i \in DOMAIN confidences |-> confidences[i].confidence]),
        den |-> Len(confidences)]
  ELSE [num |-> 0, den |-> 1]

\* line 515: data.participants ? data.participants.size : 0
ParticipantCount(w, s) == Cardinality(w[s].participants)

\* a final transcript that discards the turns of the session
FinalTranscript_NoTurns(w, s) ==
  [Result("final") EXCEPT !.sock = s, !.recv = w[s].received]

\* the object stopStreamingTranscription returns for a session it found.
\* sock: the session whose data.transcripts array the object holds by
\* reference (see transcripts); turns: the content of that array and recv:
\* the Turn messages delivered on the socket, both when the object is built
FinalTranscript(w, s) ==
  [Result("final") EXCEPT
     !.sock = s,
     !.combinedText = CombinedText(w[s].transcripts),
     !.totalWords = WordCount(w[s].transcripts),
     !.participantCount = ParticipantCount(w, s),
     !.averageConfidence = AverageConfidence(w[s].transcripts),
     !.turns = w[s].transcripts,
     !.recv = w[s].received]

\* finalTranscriptObject.transcripts and rawTranscripts (lines 541, 556):
\* `transcripts: data.transcripts` is the array of the session itself, not a
\* copy, so its content is read through the session
transcripts(r) == ws[r.sock].transcripts

\* a stop that raises when activeTranscribers has no entry
NoSessionResult_Throws == Threw("NoSession")

\* the object returned when activeTranscribers has no entry:
\* { transcripts: [], participants: new Map() }
NoSessionResult == Result("empty")

\* websocket.close()
WsCloseCall(w, s) ==
  [w EXCEPT ![s].readyState = IF @ = "OPEN" THEN "CLOSING" ELSE @]

\* stopStreamingTranscription from line 495 on: the entry of sessionId is
\* deleted and the final transcript is built from the data read at line
\* 465, as they are at this point
StopTranscriptionFinish(w, at, sid, s) ==
  [pc |-> "done", sock |-> s, result |-> FinalTranscript(w, s), ws |-> w,
   at |-> [at EXCEPT ![sid] = 0]]

\* stopStreamingTranscription from line 479 on: a session that records to
\* disk ends its write stream and awaits finalizeWavFile (line 488); the
\* call is suspended with the entry of sessionId still present.  A
\* session that does not record goes on in the same turn.
StopTranscriptionAfterClose(w, at, sid, s) ==
  IF w[s].recording
  THEN [pc |-> "finalizing", sock |-> s, result |-> NoResult, ws |-> w, at |-> at]
  ELSE StopTranscriptionFinish(w, at, sid, s)

\* stopStreamingTranscription up to its first await (lines 456-474)
StopTranscriptionBegin(w, at, sid) ==
  LET s == at[sid] IN
  IF s = 0
  THEN [pc |-> "done", sock |-> 0, result |-> NoSessionResult, ws |-> w, at |-> at]
  ELSE IF w[s].readyState = "OPEN"
       THEN [pc |-> "grace", sock |-> s, result |-> NoResult,
             ws |-> [w EXCEPT ![s].terminates = @ + 1], at |-> at]
       ELSE StopTranscriptionAfterClose(w, at, sid, s)

\* a stop that returns after the wait without closing the socket
StopTranscriptionAfterGrace_NoClose(w, at, sid, s) ==
  StopTranscriptionAfterClose(w, at, sid, s)

\* stopStreamingTranscription after the 1000 ms wait (lines 476-492)
StopTranscriptionAfterGrace(w, at, sid, s) ==
  StopTranscriptionAfterClose(WsCloseCall(w, s), at, sid, s)

\* connectAudioStream(sessionId, audioStream, userMeta): line 211 reads the
\* block-scoped userId of line 220 before its declaration (ReferenceError),
\* and the catch block at line 399 reads a userId that is not in scope, so
\* the returned promise is rejected for every argument.
connectAudioStreamThrows == TRUE

\* The object createStreamingTranscriber resolves with is
\* { websocket, data } (line 132): it has no connect method, so
\* `await transcriber.connect()` (part_005:793) raises a TypeError.
TranscriberHasConnect == FALSE

\* ------------------------------------------------- startStreamingSession
\* An effect: the call record after the step and the shared state after it.
Effect(c, w, at, reg) == [call |-> c, ws |-> w, at |-> at, reg |-> reg]

Done(c, r) == [c EXCEPT !.pc = "done", !.result = r]

\* startStreamingSession threw (catch at part_005:855 rethrows).  Called
\* from /join, the catch at part_004:258 first awaits
\* botMember.setNickname(null) (line 263) with the error in hand.
StartFailed(c, err) ==
  IF c.kind = "join"
  THEN [c EXCEPT !.pc = "resetting", !.result = [NoResult EXCEPT !.error = err]]
  ELSE Done(c, Threw(err))

\* /join after `await botMember.setNickname(null)` settled or failed
\* (part_004:262-278): the reply is "Recording Setup Failed"
JoinSetupFailed(c) ==
  Done(c, [Result("SetupFailed") EXCEPT !.error = c.result.error])

\* startStreamingSession resumes from `await createStreamingTranscriber`
\* (part_005:783-793); settled is "resolved" or the rejection reason
StartAfterHandshake(c, settled) ==
  IF settled # "resolved" THEN StartFailed(c, settled)
  ELSE IF TranscriberHasConnect THEN [c EXCEPT !.pc = "connecting"]
  ELSE StartFailed(c, "TypeError")

\* part_005:798-837: a user is entered in userStreams only when
\* connectAudioStream returned (its rejection is caught at line 834)
UserStreamsOf(users) ==
  {users[i] : i \in {j \in DOMAIN users : ~connectAudioStreamThrows}}

\* part_005:795-853: the subscription loop and the registration
StartRegister(c, reg) ==
  LET sessionInfo == [sessionId |-> c.sid, sock |-> c.sock,
                      userStreams |-> UserStreamsOf(c.users), active |-> TRUE] IN
  [call |-> Done(c, [Result("started") EXCEPT !.sock = c.sock,
                       !.userStreams = sessionInfo.userStreams]),
   reg |-> MapSet(reg, sessionInfo)]

\* -------------------------------------------------- stopStreamingSession
\* part_005:889-898 after `await stopStreamingTranscription` returned r
StopSessionFinish(c, r, reg) ==
  [call |-> Done(c, r), reg |-> MapDelete(reg, c.sid)]

\* stopStreamingSession(sid) up to its first suspension (part_005:866-887)
StopSessionBegin(c, sid, w, at, reg) ==
  IF ~(\E i \in DOMAIN reg : reg[i].sessionId = sid)
  THEN Effect(Done([c EXCEPT !.sid = sid], Result("null")), w, at, reg)
  ELSE LET t == StopTranscriptionBegin(w, at, sid)
           c1 == [c EXCEPT !.sid = sid, !.sock = t.sock] IN
       IF t.pc # "done"
       THEN Effect([c1 EXCEPT !.pc = t.pc], t.ws, t.at, reg)
       ELSE LET f == StopSessionFinish(c1, t.result, reg) IN
            Effect(f.call, t.ws, t.at, f.reg)

\* the stop of call c goes on from the step t of stopStreamingTranscription:
\* suspended again, or returned to its caller
StopGoesOn(c, t, reg) ==
  IF t.pc # "done"
  THEN Effect([c EXCEPT !.pc = t.pc], t.ws, t.at, reg)
  ELSE IF c.kind = "stopTranscription"
  THEN Effect(Done(c, t.result), t.ws, t.at, reg)
  ELSE LET f == StopSessionFinish(c, t.result, reg) IN
       Effect(f.call, t.ws, t.at, f.reg)

\* a call resumes after the 1000 ms wait of stopStreamingTranscription
AfterGrace(c, w, at, reg) ==
  StopGoesOn(c, StopTranscriptionAfterGrace(w, at, c.sid, c.sock), reg)

\* a call resumes after `await finalizeWavFile` (line 488), whether the
\* finalization succeeded or threw (caught at 490-492)
AfterFinalize(c, w, at, reg) ==
  StopGoesOn(c, StopTranscriptionFinish(w, at, c.sid, c.sock), reg)

\* ------------------------------------------- adding and removing a user
RegistryEntry(reg, sid) == CHOOSE e \in Range(reg) : e.sessionId = sid

SetUserStreams(reg, sid, streams) ==
  [i \in DOMAIN reg |->
     IF reg[i].sessionId = sid THEN [reg[i] EXCEPT !.userStreams = streams]
     ELSE reg[i]]

\* addUserToStreamingSession(sessionId, userId) (part_005:912-950): the
\* value it resolves with and the registry after it.  The rejection of
\* connectAudioStream is caught at line 946.
addUserToStreamingSession(reg, sid, uid) ==
  IF ~(\E e \in Range(reg) : e.sessionId = sid /\ e.active)
  THEN [ok |-> FALSE, reg |-> reg]
  ELSE IF uid \in RegistryEntry(reg, sid).userStreams
       THEN [ok |-> TRUE, reg |-> reg]
       ELSE IF connectAudioStreamThrows
            THEN [ok |-> FALSE, reg |-> reg]
            ELSE [ok |-> TRUE,
                  reg |-> SetUserStreams(reg, sid,
                            RegistryEntry(reg, sid).userStreams \cup {uid})]

\* removeUserFromStreamingSession(sessionId, userId) (part_005:958-985)
removeUserFromStreamingSession(reg, sid, uid) ==
  IF ~(\E e \in Range(reg) : e.sessionId = sid)
  THEN [ok |-> FALSE, reg |-> reg]
  ELSE IF uid \notin RegistryEntry(reg, sid).userStreams
       THEN [ok |-> FALSE, reg |-> reg]
       ELSE [ok |-> TRUE,
             reg |-> SetUserStreams(reg, sid,
                       RegistryEntry(reg, sid).userStreams \ {uid})]

\* the boolean an add or a remove resolves with
BoolResult(ok) == IF ok THEN Result("true") ELSE Result("false")

\* ---------------------------------------------------------- the commands
\* /join after deferReply (part_004:118-141): the Already Recording check
JoinAfterDefer(c) ==
  LET currentStatus == getCurrentStreamingStatus IN
  IF currentStatus.found /\ currentStatus.active
  THEN Done(c, Result("AlreadyRecording"))
  ELSE [c EXCEPT !.pc = "fetching"]

\* /stop after deferReply (part_002:44-50): the Not Recording check
StopCommandAfterDefer(c) ==
  LET recordingStatus == getCurrentStreamingStatus IN
  IF ~recordingStatus.found
  THEN Done(c, Result("NotRecording"))
  ELSE [c EXCEPT !.pc = "progress", !.sid = recordingStatus.sessionId]

\* the effect of resuming call p at its pending await
ResumeEffect(p) ==
  LET c == calls[p]
      w == ws
      at == activeTranscribers
      reg == activeStreamingSessions IN
  CASE c.pc = "deferring" /\ c.kind = "join" ->
         Effect(JoinAfterDefer(c), w, at, reg)
    [] c.pc = "deferring" /\ c.kind = "stopCommand" ->
         Effect(StopCommandAfterDefer(c), w, at, reg)
    [] c.pc = "fetching" ->
         \* part_004:143-197 and part_005:774-783: the socket is created
         Effect([c EXCEPT !.pc = AfterNewSocket(saveToDisk), !.sock = Len(w) + 1],
                Append(w, NewSocket(c.sid, saveToDisk)), at, reg)
    [] c.pc = "mkdir" ->
         Effect([c EXCEPT !.pc = "handshake"], AttachHandlers(w, c.sock), at, reg)
    [] c.pc = "resetting" ->
         Effect(JoinSetupFailed(c), w, at, reg)
    [] c.pc = "connecting" ->
         LET r == StartRegister(c, reg) IN Effect(r.call, w, at, r.reg)
    [] c.pc = "progress" ->
         StopSessionBegin(c, c.sid, w, at, reg)
    [] c.pc = "grace" ->
         AfterGrace(c, w, at, reg)
    [] c.pc = "finalizing" ->
         AfterFinalize(c, w, at, reg)

Apply(p, e) ==
  /\ calls' = [calls EXCEPT ![p] = e.call]
  /\ ws' = e.ws
  /\ activeTranscribers' = e.at
  /\ activeStreamingSessions' = e.reg
  /\ UNCHANGED <<requestVars, cleanupVars, saveToDisk>>

\* -------------------------------------------------------------- actions
\* /join is invoked: execute runs to `await interaction.deferReply`
InvokeJoin(sid, users) ==
  /\ Invoked(StartKinds) < MaxStarts
  /\ calls' = Append(calls, NewCall("join", "deferring", sid, users))
  /\ UNCHANGED <<ws, activeTranscribers, activeStreamingSessions>>
  /\ UNCHANGED <<requestVars, cleanupVars, saveToDisk>>

\* /stop is invoked: execute runs to `await interaction.deferReply`
InvokeStopCommand ==
  /\ Invoked(StopKinds) < MaxStops
  /\ calls' = Append(calls, NewCall("stopCommand", "deferring", "none", <<>>))
  /\ UNCHANGED <<ws, activeTranscribers, activeStreamingSessions>>
  /\ UNCHANGED <<requestVars, cleanupVars, saveToDisk>>

\* startStreamingSession(sid, connection, users) runs to the await of
\* the promise of createStreamingTranscriber
InvokeStart(sid, users) ==
  /\ Invoked(StartKinds) < MaxStarts
  /\ calls' = Append(calls, [NewCall("start", AfterNewSocket(saveToDisk), sid, users)
                               EXCEPT !.sock = Len(ws) + 1])
  /\ ws' = Append(ws, NewSocket(sid, saveToDisk))
  /\ UNCHANGED <<activeTranscribers, activeStreamingSessions>>
  /\ UNCHANGED <<requestVars, cleanupVars, saveToDisk>>

\* stopStreamingSession(sid)
InvokeStopSession(sid) ==
  /\ Invoked(StopKinds) < MaxStops
  /\ LET e == StopSessionBegin(NewCall("stopSession", "start", sid, <<>>), sid,
                             ws, activeTranscribers, activeStreamingSessions) IN
       /\ calls' = Append(calls, e.call)
       /\ ws' = e.ws
       /\ activeTranscribers' = e.at
       /\ activeStreamingSessions' = e.reg
  /\ UNCHANGED <<requestVars, cleanupVars, saveToDisk>>

\* stopStreamingTranscription(sid)
InvokeStopTranscription(sid) ==
  /\ Invoked(StopKinds) < MaxStops
  /\ LET t == StopTranscriptionBegin(ws, activeTranscribers, sid)
         c == NewCall("stopTranscription", "start", sid, <<>>) IN
       /\ calls' = Append(calls, [c EXCEPT !.pc = t.pc, !.sock = t.sock,
                                           !.result = t.result])
       /\ ws' = t.ws
       /\ activeTranscribers' = t.at
  /\ UNCHANGED activeStreamingSessions
  /\ UNCHANGED <<requestVars, cleanupVars, saveToDisk>>

\* addUserToStreamingSession(sid, uid): it has no await on I/O
InvokeAddUser(sid, uid) ==
  /\ Invoked(UserOpKinds) < MaxUserOps
  /\ LET r == addUserToStreamingSession(activeStreamingSessions, sid, uid) IN
       /\ calls' = Append(calls,
                      [NewCall("addUser", "done", sid, <<uid>>)
                         EXCEPT !.result = BoolResult(r.ok)])
       /\ activeStreamingSessions' = r.reg
  /\ UNCHANGED <<ws, activeTranscribers>>
  /\ UNCHANGED <<requestVars, cleanupVars, saveToDisk>>

\* removeUserFromStreamingSession(sid, uid)
InvokeRemoveUser(sid, uid) ==
  /\ Invoked(UserOpKinds) < MaxUserOps
  /\ LET r == removeUserFromStreamingSession(activeStreamingSessions, sid, uid) IN
       /\ calls' = Append(calls,
                      [NewCall("removeUser", "done", sid, <<uid>>)
                         EXCEPT !.result = BoolResult(r.ok)])
       /\ activeStreamingSessions' = r.reg
  /\ UNCHANGED <<ws, activeTranscribers>>
  /\ UNCHANGED <<requestVars, cleanupVars, saveToDisk>>

\* the await a call is suspended at completes (a reply, a fetch, a timer)
Resume(p) ==
  /\ calls[p].pc \in {"deferring", "fetching", "mkdir", "resetting", "connecting",
                      "progress", "grace", "finalizing"}
  /\ Apply(p, ResumeEffect(p))

\* the calls awaiting the handshake promise of socket s resume in the same
\* turn of the event loop as the handler that settles it
SettleHandshake(s, settled) ==
  [p \in DOMAIN calls |->
     IF calls[p].pc = "handshake" /\ calls[p].sock = s /\ ws[s].promise = "pending"
     THEN StartAfterHandshake(calls[p], settled)
     ELSE calls[p]]

Settled(pr, to) == IF pr = "pending" THEN to ELSE pr

\* the socket opens; ws.on('open') (lines 109-112) runs when it is attached
WsOpen(s) ==
  /\ ws[s].readyState = "CONNECTING"
  /\ ws' = [ws EXCEPT ![s].readyState = "OPEN", ![s].isConnected = ws[s].listening]
  /\ UNCHANGED <<activeTranscribers, activeStreamingSessions, calls>>
  /\ UNCHANGED <<requestVars, cleanupVars, saveToDisk>>

\* the service sends Begin; ws.on('message'), case 'Begin' (lines 120-133)
\* runs when it is attached, and the message is lost when it is not
WsMessageBegin(s) ==
  /\ ws[s].readyState = "OPEN"
  /\ ~ws[s].beginSeen
  /\ IF ws[s].listening
     THEN /\ ws' = [ws EXCEPT ![s].beginSeen = TRUE, ![s].timeout = FALSE,
                              ![s].promise = Settled(@, "resolved")]
          /\ activeTranscribers' = [activeTranscribers EXCEPT ![ws[s].sessionId] = s]
          /\ calls' = SettleHandshake(s, "resolved")
     ELSE /\ ws' = [ws EXCEPT ![s].beginSeen = TRUE]
          /\ UNCHANGED <<activeTranscribers, calls>>
  /\ UNCHANGED activeStreamingSessions
  /\ UNCHANGED <<requestVars, cleanupVars, saveToDisk>>

\* ws.on('message'), case 'Turn'
WsMessageTurn(s, m) ==
  /\ ws[s].readyState \in {"OPEN", "CLOSING"}
  /\ ~ws[s].errored
  /\ ~ws[s].closeFrameReceived
  /\ ws[s].beginSeen
  /\ ws[s].listening
  /\ Len(ws[s].received) < MaxTurns
  /\ ws' = [ws EXCEPT ![s].received = Append(@, m),
                      ![s].participants =
                         IF TurnAccepted(m) THEN RegisterSpeaker(@, m) ELSE @,
                      ![s].transcripts =
                         IF TurnAccepted(m) THEN PushTranscript(@, m) ELSE @]
  /\ UNCHANGED <<activeTranscribers, activeStreamingSessions, calls>>
  /\ UNCHANGED <<requestVars, cleanupVars, saveToDisk>>

\* ws.on('message'), case 'Termination'
WsMessageTermination(s) ==
  /\ ws[s].readyState \in {"OPEN", "CLOSING"}
  /\ ~ws[s].errored
  /\ ~ws[s].closeFrameReceived
  /\ ws[s].beginSeen
  /\ ws[s].listening
  /\ ~ws[s].terminationSeen
  /\ ws' = [ws EXCEPT ![s].terminationSeen = TRUE, ![s].isConnected = FALSE]
  /\ UNCHANGED <<activeTranscribers, activeStreamingSessions, calls>>
  /\ UNCHANGED <<requestVars, cleanupVars, saveToDisk>>

\* ws.on('error') (lines 183-188): isConnected is cleared, the timer is
\* cleared and the promise is rejected.  A socket that fails while it is
\* connecting is closed by the failure; a socket that fails while it is
\* open or closing is CLOSING and stays so until its 'close' event, and
\* no message is delivered in between.  An
\* error emitted before the handler is attached is an uncaught exception
\* of the process and is outside this model.
WsError(s) ==
  /\ ws[s].readyState \in {"CONNECTING", "OPEN", "CLOSING"}
  /\ ~ws[s].errored
  /\ ~ws[s].closeFrameReceived
  /\ ws[s].listening
  /\ ws' = [ws EXCEPT ![s].readyState =
                         IF @ = "CONNECTING" THEN "CLOSED" ELSE "CLOSING",
                      ![s].errored = TRUE,
                      ![s].isConnected = FALSE,
                      ![s].timeout = FALSE, ![s].promise = Settled(@, "rejected")]
  /\ calls' = SettleHandshake(s, "SocketError")
  /\ UNCHANGED <<activeTranscribers, activeStreamingSessions>>
  /\ UNCHANGED <<requestVars, cleanupVars, saveToDisk>>

\* the close frame of the service arrives on the socket created at line
\* 58: the socket answers it and is CLOSING until its connection ends.  No
\* handler of createStreamingTranscriber runs (isConnected keeps its
\* value, the session stays in activeTranscribers) and no message is
\* delivered after it.
WsCloseFrame(s) ==
  /\ ws[s].readyState \in {"OPEN", "CLOSING"}
  /\ ~ws[s].errored
  /\ ~ws[s].closeFrameReceived
  /\ ws' = [ws EXCEPT ![s].readyState = "CLOSING", ![s].closeFrameReceived = TRUE]
  /\ UNCHANGED <<activeTranscribers, activeStreamingSessions, calls>>
  /\ UNCHANGED <<requestVars, cleanupVars, saveToDisk>>

\* the connection of the socket ends, after a close frame or without one:
\* the socket is CLOSED and ws.on('close') (lines 190-193) clears isConnected,
\* which only the 'open' handler sets
WsClose(s) ==
  /\ ws[s].readyState \in {"OPEN", "CLOSING"}
  /\ ws' = [ws EXCEPT ![s].readyState = "CLOSED", ![s].isConnected = FALSE]
  /\ UNCHANGED <<activeTranscribers, activeStreamingSessions, calls>>
  /\ UNCHANGED <<requestVars, cleanupVars, saveToDisk>>

\* the 10 s timer of createStreamingTranscriber fires (lines 105-107)
HandshakeTimeout(s) ==
  /\ ws[s].timeout
  /\ ws' = [ws EXCEPT ![s].timeout = FALSE, ![s].timedOut = TRUE,
                      ![s].promise = Settled(@, "rejected")]
  /\ calls' = SettleHandshake(s, "ConnectionTimeout")
  /\ UNCHANGED <<activeTranscribers, activeStreamingSessions>>
  /\ UNCHANGED <<requestVars, cleanupVars, saveToDisk>>

\* ------------------------------------------------------ WAV finalization
\* A file size or a 32-bit header field is kept as two base-65536 digits,
\* value = hi * 65536 + lo, so that sizes of 2^32 bytes and more can be
\* told from those that fit in four bytes.
Wide(v) == [hi |-> v \div 65536, lo |-> v % 65536]

WidePlus(n, k) ==
  [hi |-> n.hi + (n.lo + k) \div 65536, lo |-> (n.lo + k) % 65536]

\* the sum of two numbers kept as base-65536 digits
WideAdd(a, b) ==
  [hi |-> a.hi + b.hi + (a.lo + b.lo) \div 65536, lo |-> (a.lo + b.lo) % 65536]

WideLeq(a, b) == a.hi < b.hi \/ (a.hi = b.hi /\ a.lo <= b.lo)

WideMin(a, b) == IF WideLeq(a, b) THEN a ELSE b

\* Buffer.writeUInt32LE and writeUInt16LE throw a RangeError for a value
\* out of range
FitsUInt32(n) == n.hi \in 0..65535 /\ n.lo \in 0..65535
FitsUInt16(v) == v \in 0..65535

writeUInt16LE(v) == <<v % 256, v \div 256>>
writeUInt32LE(n) == writeUInt16LE(n.lo) \o writeUInt16LE(n.hi)

\* the ASCII codes of the four chunk tags
TagRIFF == <<82, 73, 70, 70>>
TagWAVE == <<87, 65, 86, 69>>
TagFmt == <<102, 109, 116, 32>>
TagData == <<100, 97, 116, 97>>

\* the sizes of a raw PCM file, the channel counts, sample rates and bit
\* depths finalizeWavFile is called with
RawSizes ==
  { [hi |-> 0, lo |-> 0], [hi |-> 0, lo |-> 1920], [hi |-> 0, lo |-> 65535],
    [hi |-> 1, lo |-> 0], [hi |-> 3, lo |-> 3392],
    [hi |-> 65535, lo |-> 65500], [hi |-> 65536, lo |-> 5] }
ChannelCounts == {1, 2}
SampleRates == {16000, 44100, 48000}
BitDepths == {8, 16, 24}

\* the arguments of the stop path (line 488: 1 channel, 48000 Hz, 16 bits)
\* and two others in which every argument takes another value
WavConfigs ==
  { [channels |-> 1, sampleRate |-> 48000, bitDepth |-> 16],
    [channels |-> 2, sampleRate |-> 44100, bitDepth |-> 24],
    [channels |-> 1, sampleRate |-> 16000, bitDepth |-> 8] }

BytesPerSample(bitDepth) == bitDepth \div 8
ByteRate(channels, sampleRate, bitDepth) ==
  sampleRate * channels * BytesPerSample(bitDepth)
BlockAlign(channels, bitDepth) == channels * BytesPerSample(bitDepth)

\* lines 609-622: the 44 bytes of the header
WavHeader(dataSize, channels, sampleRate, bitDepth) ==
  TagRIFF \o writeUInt32LE(WidePlus(dataSize, 36)) \o TagWAVE \o TagFmt
    \o writeUInt32LE(Wide(16)) \o writeUInt16LE(1) \o writeUInt16LE(channels)
    \o writeUInt32LE(Wide(sampleRate))
    \o writeUInt32LE(Wide(ByteRate(channels, sampleRate, bitDepth)))
    \o writeUInt16LE(BlockAlign(channels, bitDepth)) \o writeUInt16LE(bitDepth)
    \o TagData \o writeUInt32LE(dataSize)

\* every value written to the header is in the range of its field
HeaderWritable(dataSize, channels, sampleRate, bitDepth) ==
  /\ FitsUInt32(WidePlus(dataSize, 36))
  /\ FitsUInt16(channels)
  /\ FitsUInt32(Wide(sampleRate))
  /\ FitsUInt32(Wide(ByteRate(channels, sampleRate, bitDepth)))
  /\ FitsUInt16(BlockAlign(channels, bitDepth))
  /\ FitsUInt16(bitDepth)

\* a raw PCM file: whether its path exists, and the size of its data.  A
\* file that is removed keeps its data for the streams that have it open.
AbsentFile == [exists |-> FALSE, size |-> Wide(0)]
FileOfSize(n) == [exists |-> TRUE, size |-> n]
RawFiles == {FileOfSize(n) : n \in RawSizes} \cup {AbsentFile}

\* what the raw file can become while finalizeWavFile is suspended: a
\* frame of 1920 bytes is appended (a write of the stream ended at line
\* 484 reaches the disk), the file is truncated, or it is removed
RawChanges(raw) ==
  IF raw.exists
  THEN {FileOfSize(WidePlus(raw.size, 1920)), FileOfSize(Wide(0)),
        [exists |-> FALSE, size |-> raw.size]} \ {raw}
  ELSE {}

\* the bytes a read of fs.createReadStream (line 630) asks for at most
ReadChunk == [hi |-> 1, lo |-> 0]

\* the result of a finalizeWavFile call c that left a WAV file of wavSize
\* bytes
WavResult(c, error, written, wavSize) ==
  [kind |-> "wav", error |-> error, args |-> c.args, written |-> written,
   header |-> c.header, size |-> wavSize, changes |-> c.changes]

\* finalizeWavFile(rawPath, wavPath, channels, sampleRate, bitDepth) from
\* the settling of `await fsp.stat(rawPath)` (line 602) to the await of
\* the piping (line 625); stats is the raw file as the stat found it.  A
\* raw file that is absent rejects the stat; the size read is the data
\* size of the header; a RangeError of a header write is rethrown before
\* the WAV file is created; otherwise the header is written to the WAV
\* stream and the read stream of the raw file is created and piped into
\* it: the call waits for the raw file to be opened.
finalizeWavFile(c, stats) ==
  LET a == c.args
      dataSize == stats.size IN
  IF ~stats.exists
  THEN [c EXCEPT !.pc = "done", !.seen = {}, !.result = WavResult(c, "ENOENT", FALSE, Wide(0))]
  ELSE IF HeaderWritable(dataSize, a.channels, a.sampleRate, a.bitDepth)
  THEN [c EXCEPT !.pc = "opening", !.seen = {c.raw},
                 !.header = WavHeader(dataSize, a.channels, a.sampleRate, a.bitDepth)]
  ELSE [c EXCEPT !.pc = "done", !.seen = {}, !.result = WavResult(c, "RangeError", FALSE, Wide(0))]

\* the read stream of line 630 has opened the raw file; source is the file
\* as the open found it.  A path that is absent makes the stream emit
\* 'error', which rejects the promise (line 631) while the WAV stream is
\* still writing: the WAV file holds its header (flushed) or nothing yet.
\* Otherwise the stream reads from position 0.
finalizeWavFile_Opened(c, source, flushed) ==
  IF source.exists
  THEN [c EXCEPT !.pc = "reading", !.seen = {c.raw}]
  ELSE [c EXCEPT !.pc = "done", !.seen = {},
                 !.result = WavResult(c, "ENOENT", FALSE,
                                      IF flushed THEN Wide(Len(c.header)) ELSE Wide(0))]

\* the read stream has no byte left at its position in source
AtEndOf(c, source) == WideLeq(source.size, c.copied)

\* one read of the read stream settles; source is the file as the read
\* found it.  The bytes from the position of the stream on, ReadChunk at
\* most, are written to the WAV stream (pipe, line 632); when there is none
\* the read stream ends and pipe ends the WAV stream.
finalizeWavFile_Read(c, source) ==
  IF AtEndOf(c, source)
  THEN [c EXCEPT !.pc = "ending", !.seen = {c.raw}]
  ELSE [c EXCEPT !.copied = WideMin(source.size, WideAdd(@, ReadChunk)),
                 !.seen = {c.raw}]

\* the WAV stream emits 'finish' (line 628): the promise of the piping is
\* resolved and finalizeWavFile returns
finalizeWavFile_Finished(c) ==
  [c EXCEPT !.pc = "done", !.seen = {},
            !.result = WavResult(c, "", TRUE, WideAdd(c.copied, Wide(Len(c.header))))]

\* finalizeWavFile is called on a raw file: the call is suspended at
\* `await fsp.stat(rawPath)` (line 602).  Every call has a raw and a WAV
\* path of its own.  The field seen holds what the raw file has been since
\* the pending file operation was issued: the operation reads the file
\* at some moment between its issue and its settling.  copied is the
\* position of the read stream.
InvokeFinalizeWav(raw, channels, sampleRate, bitDepth) ==
  /\ Invoked({"finalizeWav"}) < MaxFinalizes
  /\ calls' = Append(calls,
        [kind |-> "finalizeWav", pc |-> "stat", sid |-> "", users |-> <<>>,
         sock |-> 0, result |-> NoResult,
         args |-> [raw |-> raw, dataSize |-> raw.size, channels |-> channels,
                   sampleRate |-> sampleRate, bitDepth |-> bitDepth],
         raw |-> raw, seen |-> {raw}, changes |-> 0, header |-> <<>>,
         copied |-> Wide(0)])
  /\ UNCHANGED <<ws, activeTranscribers, activeStreamingSessions>>
  /\ UNCHANGED <<requestVars, cleanupVars, saveToDisk>>

\* the raw file of a suspended finalizeWavFile call changes
RawFileChanges(p) ==
  /\ calls[p].kind = "finalizeWav"
  /\ calls[p].pc \in {"stat", "opening", "reading", "ending"}
  /\ calls[p].changes < MaxRawChanges
  /\ \E raw \in RawChanges(calls[p].raw) :
       calls' = [calls EXCEPT ![p].raw = raw, ![p].seen = @ \cup {raw},
                                 ![p].changes = @ + 1]
  /\ UNCHANGED <<ws, activeTranscribers, activeStreamingSessions>>
  /\ UNCHANGED <<requestVars, cleanupVars, saveToDisk>>

\* `await fsp.stat(rawPath)` (line 602) settles
FinalizeStatSettles(p) ==
  /\ calls[p].kind = "finalizeWav"
  /\ calls[p].pc = "stat"
  /\ \E stats \in calls[p].seen :
       calls' = [calls EXCEPT ![p] = finalizeWavFile(calls[p], stats)]
  /\ UNCHANGED <<ws, activeTranscribers, activeStreamingSessions>>
  /\ UNCHANGED <<requestVars, cleanupVars, saveToDisk>>

\* the open of the read stream (line 630) settles
FinalizeOpenSettles(p) ==
  /\ calls[p].kind = "finalizeWav"
  /\ calls[p].pc = "opening"
  /\ \E source \in calls[p].seen, flushed \in BOOLEAN :
       calls' = [calls EXCEPT ![p] = finalizeWavFile_Opened(calls[p], source, flushed)]
  /\ UNCHANGED <<ws, activeTranscribers, activeStreamingSessions>>
  /\ UNCHANGED <<requestVars, cleanupVars, saveToDisk>>

\* a read of the read stream settles
FinalizeReadSettles(p) ==
  /\ calls[p].kind = "finalizeWav"
  /\ calls[p].pc = "reading"
  /\ \E source \in calls[p].seen :
       calls' = [calls EXCEPT ![p] = finalizeWavFile_Read(calls[p], source)]
  /\ UNCHANGED <<ws, activeTranscribers, activeStreamingSessions>>
  /\ UNCHANGED <<requestVars, cleanupVars, saveToDisk>>

\* 'finish' of the WAV stream (line 628) settles the promise of lines
\* 625-633
FinalizeFinishSettles(p) ==
  /\ calls[p].kind = "finalizeWav"
  /\ calls[p].pc = "ending"
  /\ calls' = [calls EXCEPT ![p] = finalizeWavFile_Finished(calls[p])]
  /\ UNCHANGED <<ws, activeTranscribers, activeStreamingSessions>>
  /\ UNCHANGED <<requestVars, cleanupVars, saveToDisk>>

\* ----------------------------------------------------------- computeRms
\* Buffer.readInt16LE(offset), offset 0-based: two's complement
readInt16LE(buffer, offset) ==
  LET u == buffer[offset + 1] + 256 * buffer[offset + 2] IN
  IF u >= 32768 THEN u - 65536 ELSE u

\* the byte values a frame is made of, and the frames
FrameBytes == {0, 1, 127, 128, 255}
RECURSIVE FramesOfLength(_)
FramesOfLength(n) ==
  IF n = 0 THEN {<<>>}
  ELSE {Append(f, b) : f \in FramesOfLength(n - 1), b \in FrameBytes}
Frames == UNION {FramesOfLength(n) : n \in 0..MaxFrameBytes}

\* lines 438-443: the sum of the squares of the first k samples
RECURSIVE SumSq(_, _)
SumSq(buffer, k) ==
  IF k = 0 THEN Wide(0)
  ELSE LET val == readInt16LE(buffer, (k - 1) * 2) IN
       WideAdd(SumSq(buffer, k - 1), Wide(val * val))

\* n times v, v kept as base-65536 digits
RECURSIVE WideTimes(_, _)
WideTimes(n, v) == IF n = 0 THEN Wide(0) ELSE WideAdd(WideTimes(n - 1, v), v)

\* line 447: the value the RMS is divided by
RmsNormaliser == 32767

\* computeRms(buffer) returns sqrt(sumSq / divisor) / normaliser; the three
\* integers stand for that real number (0 for an empty buffer, line 437).
computeRms(buffer) ==
  LET sampleCount == Len(buffer) \div 2 IN
  IF Len(buffer) = 0
  THEN [kind |-> "rms", buffer |-> buffer, sumSq |-> Wide(0), divisor |-> 1,
        normaliser |-> RmsNormaliser]
  ELSE [kind |-> "rms", buffer |-> buffer, sumSq |-> SumSq(buffer, sampleCount),
        divisor |-> IF sampleCount > 1 THEN sampleCount ELSE 1,
        normaliser |-> RmsNormaliser]

InvokeComputeRms(buffer) ==
  /\ Invoked({"computeRms"}) < MaxRmsCalls
  /\ calls' = Append(calls, [NewCall("computeRms", "done", "", <<>>) EXCEPT
                               !.result = computeRms(buffer)])
  /\ UNCHANGED <<ws, activeTranscribers, activeStreamingSessions>>
  /\ UNCHANGED <<requestVars, cleanupVars, saveToDisk>>

\* ------------------------------------------------------- cleanup of files
\* the filePaths arrays handed to scheduleCleanup and to removeFiles
FileLists == {<<"f1">>, <<"f2">>, <<"f1", "f2">>}

\* the categories of trackFile and the arguments of cleanupByCategory
\* (cleanupTempFiles, cleanupAudioFiles and cleanupAllFiles call it with
\* 'temp', 'audio' and 'all')
Categories == {"temp", "audio"}
CategoryArgs == {"temp", "audio", "all"}

\* the recordingInfos arrays handed to cleanupRecordingFiles; "" stands
\* for a path that is not set
RecordingInfoLists ==
  { <<[filePath |-> "f1", wavFilePath |-> "f2", originalPcmPath |-> "f1"]>>,
    <<[filePath |-> "f1", wavFilePath |-> "", originalPcmPath |-> "f2"]>>,
    <<[filePath |-> "f2", wavFilePath |-> "f2", originalPcmPath |-> ""]>> }

RemovalKinds == {"removeFile", "removeFiles", "cleanupByCategory",
                 "cleanupRecordingFiles", "emergencyCleanup"}

\* cleanupTasks.findIndex(task => task.id === id): 0 stands for -1
RECURSIVE FindIndexFrom(_, _, _)
FindIndexFrom(tasks, id, i) ==
  IF i > Len(tasks) THEN 0
  ELSE IF tasks[i].id = id THEN i ELSE FindIndexFrom(tasks, id, i + 1)

FindIndex(tasks, id) == FindIndexFrom(tasks, id, 1)

\* cleanupTasks.splice(index, 1)
Splice(tasks, index) ==
  [i \in 1..(Len(tasks) - 1) |-> IF i < index THEN tasks[i] ELSE tasks[i + 1]]

\* removeFromTracking(filePath), lines 131-138: the first tracked entry
\* of the path is deleted from the Set
RECURSIVE FirstTrackedFrom(_, _, _)
FirstTrackedFrom(tracked, filePath, i) ==
  IF i > Len(tracked) THEN 0
  ELSE IF tracked[i].path = filePath THEN i
  ELSE FirstTrackedFrom(tracked, filePath, i + 1)

removeFromTracking(tracked, filePath) ==
  LET i == FirstTrackedFrom(tracked, filePath, 1) IN
  IF i = 0 THEN tracked ELSE Splice(tracked, i)

RECURSIVE UntrackAll(_, _)
UntrackAll(tracked, filePaths) ==
  IF filePaths = <<>> THEN tracked
  ELSE UntrackAll(removeFromTracking(tracked, Head(filePaths)), Tail(filePaths))

\* the elements of a sequence without repetitions, in the order of their
\* first occurrence: [...new Set(array)]
RECURSIVE Unique(_)
Unique(seq) ==
  IF seq = <<>> THEN <<>>
  ELSE LET init == Unique(SubSeq(seq, 1, Len(seq) - 1))
           last == seq[Len(seq)] IN
       IF last \in Range(init) THEN init ELSE Append(init, last)

\* the state the cleanup operations work on
CleanupState ==
  [tasks |-> cleanupTasks, timers |-> cleanupTimers, tracked |-> trackedFiles,
   calls |-> calls, removals |-> removals]

\* removeFiles(filePaths) up to `await Promise.all` (lines 146-163): every
\* removeFile runs to its first await.  A file that does not exist is
\* done at once (lines 94-98); for the others `fs.stat` is pending (line
\* 52, called from line 101).  owner is the code that awaits the removal.
NewRemoval(owner, filePaths) ==
  [owner |-> owner, files |-> filePaths,
   pcs |-> [i \in DOMAIN filePaths |->
              IF filePaths[i] \in disk THEN "stat" ELSE "removed"],
   removed |-> SelectSeq(filePaths, LAMBDA f : f \notin disk),
   failed |-> <<>>]

\* every removeFile of the removal has returned
Finished(job) == \A i \in DOMAIN job.pcs : job.pcs[i] \in {"removed", "failed"}

\* the results object of removeFiles (lines 149-153, 173)
RemovalResults(job) ==
  [kind |-> "results", removed |-> job.removed, failed |-> job.failed,
   total |-> Len(job.files)]

\* a removal that has ended: its promise is settled and holds nothing
Ended(job) ==
  [owner |-> job.owner, files |-> <<>>, pcs |-> <<>>, removed |-> <<>>,
   failed |-> <<>>]

\* the code that awaited the removal goes on: the timer callback of
\* scheduleCleanup removes the first task that has the id of its task
\* (lines 279-283); removeFile returns whether the file is gone;
\* emergencyCleanup clears the tracking (line 364); the others return
\* the results of removeFiles
AfterRemoval(e, job) ==
  LET o == job.owner IN
  CASE o.kind = "timer" ->
         LET index == FindIndex(e.tasks, e.timers[o.id].task.id) IN
         [e EXCEPT !.timers[o.id].state = "done",
                   !.tasks = IF index > 0 THEN Splice(@, index) ELSE @]
    [] o.kind = "removeFile" ->
         [e EXCEPT !.calls[o.id].pc = "done",
                   !.calls[o.id].result =
                      [kind |-> "boolean", value |-> job.failed = <<>>]]
    [] o.kind = "emergencyCleanup" ->
         [e EXCEPT !.calls[o.id].pc = "done",
                   !.calls[o.id].result = RemovalResults(job),
                   !.tracked = <<>>]
    [] OTHER ->
         [e EXCEPT !.calls[o.id].pc = "done",
                   !.calls[o.id].result = RemovalResults(job)]

\* a removal starts; when none of its files exists it ends in the same
\* turn of the event loop
RemoveFilesBegin(e, owner, filePaths) ==
  LET job == NewRemoval(owner, filePaths)
      e1 == [e EXCEPT !.tracked = UntrackAll(@, job.removed),
                      !.removals = Append(@, IF Finished(job) THEN Ended(job) ELSE job)] IN
  IF Finished(job) THEN AfterRemoval(e1, job) ELSE e1

ApplyCleanup(e) ==
  /\ cleanupTasks' = e.tasks
  /\ cleanupTimers' = e.timers
  /\ trackedFiles' = e.tracked
  /\ calls' = e.calls
  /\ removals' = e.removals
  /\ UNCHANGED <<sessionVars, requestVars, saveToDisk>>

\* a call of one of the exported removal operations, suspended
RemovalCall(k) == NewCall(k, "removing", "", <<>>)

\* the last reading of Date.now() that a task took as its id
LastClock ==
  IF cleanupTimers = <<>> THEN 1 ELSE cleanupTimers[Len(cleanupTimers)].task.id

\* trackFile(filePath, options), lines 73-84
TrackFile(filePath, category) ==
  /\ Len(trackedFiles) < MaxTracked
  /\ trackedFiles' = Append(trackedFiles, [path |-> filePath, category |-> category])
  /\ UNCHANGED <<sessionVars, calls, requestVars, cleanupTasks, cleanupTimers,
                 removals, disk, saveToDisk>>

\* scheduleCleanup(filePaths, delayMs) at clock reading now (lines 263-287):
\* the task is pushed and a timer is set whose callback holds the task.
\* The field timer tells the task objects apart; it is the index of the
\* timer set for the task.
ScheduleCleanup(filePaths, now) ==
  /\ Len(cleanupTimers) < MaxSchedules
  /\ now >= LastClock
  /\ LET cleanupTask == [id |-> now, files |-> filePaths,
                         timer |-> Len(cleanupTimers) + 1] IN
       /\ cleanupTasks' = Append(cleanupTasks, cleanupTask)
       /\ cleanupTimers' = Append(cleanupTimers,
                                  [task |-> cleanupTask, state |-> "pending"])
  /\ UNCHANGED <<sessionVars, calls, requestVars, trackedFiles, removals, disk,
                 saveToDisk>>

\* cancelScheduledCleanup(taskId), lines 294-303: the task is removed from
\* cleanupTasks; no timer is cleared (the handle of setTimeout is not kept)
InvokeCancelCleanup(taskId) ==
  /\ Invoked({"cancelCleanup"}) < MaxCancels
  /\ LET index == FindIndex(cleanupTasks, taskId)
         c == NewCall("cancelCleanup", "done", "", <<>>) IN
       IF index > 0
       THEN /\ cleanupTasks' = Splice(cleanupTasks, index)
            /\ UNCHANGED cleanupTimers
            /\ calls' = Append(calls, [c EXCEPT !.result =
                           [kind |-> "true", taskId |-> taskId,
                            task |-> cleanupTasks[index]]])
       ELSE /\ calls' = Append(calls, [c EXCEPT !.result =
                           [kind |-> "false", taskId |-> taskId]])
            /\ UNCHANGED <<cleanupTasks, cleanupTimers>>
  /\ UNCHANGED <<sessionVars, requestVars, trackedFiles, removals, disk, saveToDisk>>

\* the timer of lines 275-284 fires: the callback calls
\* removeFiles(cleanupTask.files, { force: true }) and awaits it
CleanupTimerFires(k) ==
  /\ cleanupTimers[k].state = "pending"
  /\ ApplyCleanup(RemoveFilesBegin(
        [CleanupState EXCEPT !.timers[k].state = "removing"],
        [kind |-> "timer", id |-> k], cleanupTimers[k].task.files))
  /\ UNCHANGED disk

\* removeFile(filePath, force), lines 92-125
InvokeRemoveFile(filePath) ==
  /\ Invoked(RemovalKinds) < MaxRemovals
  /\ ApplyCleanup(RemoveFilesBegin(
        [CleanupState EXCEPT !.calls = Append(@, RemovalCall("removeFile"))],
        [kind |-> "removeFile", id |-> Len(calls) + 1], <<filePath>>))
  /\ UNCHANGED disk

\* removeFiles(filePaths, options), lines 146-174
InvokeRemoveFiles(filePaths) ==
  /\ Invoked(RemovalKinds) < MaxRemovals
  /\ ApplyCleanup(RemoveFilesBegin(
        [CleanupState EXCEPT !.calls = Append(@, RemovalCall("removeFiles"))],
        [kind |-> "removeFiles", id |-> Len(calls) + 1], filePaths))
  /\ UNCHANGED disk

\* the paths of the tracked files of a category, lines 186-190
TrackedPaths(tracked, category) ==
  LET sel == SelectSeq(tracked,
                LAMBDA t : category = "all" \/ t.category = category) IN
  [i \in DOMAIN sel |-> sel[i].path]

\* cleanupByCategory(category), lines 181-198
InvokeCleanupByCategory(category) ==
  /\ Invoked(RemovalKinds) < MaxRemovals
  /\ LET filesToCleanup == TrackedPaths(trackedFiles, category)
         c == RemovalCall("cleanupByCategory") IN
       IF filesToCleanup = <<>>
       THEN ApplyCleanup([CleanupState EXCEPT !.calls =
               Append(@, [c EXCEPT !.pc = "done", !.result =
                  [kind |-> "results", removed |-> <<>>, failed |-> <<>>,
                   total |-> 0]])])
       ELSE ApplyCleanup(RemoveFilesBegin(
               [CleanupState EXCEPT !.calls = Append(@, c)],
               [kind |-> "cleanupByCategory", id |-> Len(calls) + 1],
               filesToCleanup))
  /\ UNCHANGED disk

\* the paths of one recording, lines 234-248
PathsOfRecording(recording) ==
  (IF recording.filePath # "" THEN <<recording.filePath>> ELSE <<>>)
    \o (IF recording.wavFilePath # "" THEN <<recording.wavFilePath>> ELSE <<>>)
    \o (IF recording.originalPcmPath # ""
           /\ recording.originalPcmPath # recording.filePath
        THEN <<recording.originalPcmPath>> ELSE <<>>)

RECURSIVE PathsOfRecordings(_)
PathsOfRecordings(recordingInfos) ==
  IF recordingInfos = <<>> THEN <<>>
  ELSE PathsOfRecording(Head(recordingInfos)) \o PathsOfRecordings(Tail(recordingInfos))

\* cleanupRecordingFiles(recordingInfos), lines 229-254
InvokeCleanupRecordingFiles(recordingInfos) ==
  /\ Invoked(RemovalKinds) < MaxRemovals
  /\ ApplyCleanup(RemoveFilesBegin(
        [CleanupState EXCEPT !.calls = Append(@, RemovalCall("cleanupRecordingFiles"))],
        [kind |-> "cleanupRecordingFiles", id |-> Len(calls) + 1],
        Unique(PathsOfRecordings(recordingInfos))))
  /\ UNCHANGED disk

\* emergencyCleanup(), lines 352-369: the scheduled tasks are dropped from
\* cleanupTasks (their timers stay armed) and every tracked file is removed
InvokeEmergencyCleanup ==
  /\ Invoked(RemovalKinds) < MaxRemovals
  /\ ApplyCleanup(RemoveFilesBegin(
        [CleanupState EXCEPT !.calls = Append(@, RemovalCall("emergencyCleanup")),
                             !.tasks = <<>>],
        [kind |-> "emergencyCleanup", id |-> Len(calls) + 1],
        TrackedPaths(trackedFiles, "all")))
  /\ UNCHANGED disk

\* `await fs.stat` of getFileInfo (line 52) settles for file i of removal
\* j, with the stats or with an error that getFileInfo catches: removeFile
\* goes on to `await fs.unlink` (line 104)
FsStatSettles(j, i) ==
  /\ removals[j].pcs[i] = "stat"
  /\ removals' = [removals EXCEPT ![j].pcs[i] = "unlink"]
  /\ UNCHANGED <<sessionVars, calls, requestVars, cleanupTasks, cleanupTimers,
                 trackedFiles, disk, saveToDisk>>

\* the unlink that `fs.unlink` (line 104) asked for is carried out for
\* file i of removal j while removeFile is still suspended: the file
\* leaves the disk, or it was gone already (ENOENT), or the unlink is
\* refused with another error and the file stays
FsUnlink(j, i, ok) ==
  /\ removals[j].pcs[i] = "unlink"
  /\ removals[j].files[i] \notin disk => ok
  /\ removals' = [removals EXCEPT ![j].pcs[i] = IF ok THEN "unlinked" ELSE "refused"]
  /\ disk' = IF ok THEN disk \ {removals[j].files[i]} ELSE disk
  /\ UNCHANGED <<sessionVars, calls, requestVars, cleanupTasks, cleanupTimers,
                 trackedFiles, saveToDisk>>

\* `await fs.unlink` (line 104) settles for file i of removal j, in a
\* later turn than the unlink itself: removeFile drops the file from the
\* tracking and returns true (lines 107-112, and 115-119 for ENOENT), or
\* returns false after another error (122-123).  The removeFile that
\* returns last ends the removal.
FsUnlinkSettles(j, i) ==
  /\ removals[j].pcs[i] \in {"unlinked", "refused"}
  /\ LET f == removals[j].files[i]
         ok == removals[j].pcs[i] = "unlinked"
         job == [removals[j] EXCEPT
                   !.pcs[i] = IF ok THEN "removed" ELSE "failed",
                   !.removed = IF ok THEN Append(@, f) ELSE @,
                   !.failed = IF ok THEN @ ELSE Append(@, f)]
         e1 == [CleanupState EXCEPT
                   !.removals[j] = IF Finished(job) THEN Ended(job) ELSE job,
                   !.tracked = IF ok THEN removeFromTracking(@, f) ELSE @] IN
       /\ ApplyCleanup(IF Finished(job) THEN AfterRemoval(e1, job) ELSE e1)
       /\ UNCHANGED disk

\* --------------------------------------------------- transcription requests
RequestKinds == {"upload", "transcriptionRequest", "poll"}

\* the outcome of a request function: resolved, or rejected with an error
Outcome(error) == [kind |-> IF error = "" THEN "resolved" ELSE "rejected",
                   error |-> error]

\* uploadAudioFile and createTranscriptionRequest up to their first await
\* (lines 20-31 and 68-89).  The limit check throws inside the try block,
\* so the finally block (56-58, 117-119) decrements the counter also when
\* the counter was not incremented.
RequestBegin(c, count) ==
  IF count >= MaxConcurrent
  THEN [call |-> [c EXCEPT !.pc = "done", !.result = Outcome("RateLimit")],
        count |-> count - 1]
  ELSE [call |-> [c EXCEPT !.pc = "inflight"], count |-> count + 1]

\* the head of the loop of pollTranscriptionResult (lines 134-142); timedOut
\* stands for Date.now() - startTime >= maxWaitTime
PollLoopHead(c, count, timedOut) ==
  IF timedOut
  THEN [call |-> [c EXCEPT !.pc = "done", !.result = Outcome("Timeout")],
        count |-> count, delete |-> TRUE]
  ELSE IF count >= MaxConcurrent
  THEN [call |-> [c EXCEPT !.pc = "sleeping"], count |-> count, delete |-> FALSE]
  ELSE [call |-> [c EXCEPT !.pc = "inflight"], count |-> count + 1, delete |-> FALSE]

InvokeUpload ==
  /\ Invoked(RequestKinds) < MaxRequests
  /\ LET b == RequestBegin(NewCall("upload", "start", "", <<>>), concurrentRequests) IN
       /\ calls' = Append(calls, b.call)
       /\ concurrentRequests' = b.count
  /\ UNCHANGED <<sessionVars, activeTranscriptions, cleanupVars, saveToDisk>>

InvokeCreateRequest ==
  /\ Invoked(RequestKinds) < MaxRequests
  /\ LET b == RequestBegin(NewCall("transcriptionRequest", "start", "", <<>>),
                           concurrentRequests) IN
       /\ calls' = Append(calls, b.call)
       /\ concurrentRequests' = b.count
  /\ UNCHANGED <<sessionVars, activeTranscriptions, cleanupVars, saveToDisk>>

\* pollTranscriptionResult(transcriptId); the id is kept in the field sid
InvokePoll(transcriptId) ==
  /\ Invoked(RequestKinds) < MaxRequests
  /\ LET h == PollLoopHead(NewCall("poll", "start", transcriptId, <<>>),
                           concurrentRequests, FALSE) IN
       /\ calls' = Append(calls, h.call)
       /\ concurrentRequests' = h.count
  /\ UNCHANGED <<sessionVars, activeTranscriptions, cleanupVars, saveToDisk>>

\* the file read or the POST of an upload or of a transcription request
\* settles (lines 31-58, 89-119): the finally block decrements; a
\* transcription request that succeeded tracks the id it was given
RequestSettles(p, ok, transcriptId) ==
  /\ calls[p].kind \in {"upload", "transcriptionRequest"}
  /\ calls[p].pc = "inflight"
  /\ calls' = [calls EXCEPT ![p].pc = "done",
                            ![p].sid = IF ok /\ calls[p].kind = "transcriptionRequest"
                                       THEN transcriptId ELSE "",
                            ![p].result = Outcome(IF ok THEN "" ELSE "RequestFailed")]
  /\ concurrentRequests' = concurrentRequests - 1
  /\ activeTranscriptions' =
       IF ok /\ calls[p].kind = "transcriptionRequest"
       THEN [activeTranscriptions EXCEPT ![transcriptId] = "queued"]
       ELSE activeTranscriptions
  /\ UNCHANGED <<sessionVars, cleanupVars, saveToDisk>>

\* the GET of a poll settles (lines 145-181, 191-195); status "failed"
\* stands for a request that threw
PollResponse(p, status) ==
  /\ calls[p].kind = "poll"
  /\ calls[p].pc = "inflight"
  /\ concurrentRequests' = concurrentRequests - 1
  /\ LET id == calls[p].sid IN
       CASE status = "completed" ->
              /\ calls' = [calls EXCEPT ![p].pc = "done", ![p].result = Outcome("")]
              /\ activeTranscriptions' = [activeTranscriptions EXCEPT ![id] = "absent"]
         [] status = "error" ->
              /\ calls' = [calls EXCEPT ![p].pc = "done",
                                        ![p].result = Outcome("TranscriptionFailed")]
              /\ activeTranscriptions' = [activeTranscriptions EXCEPT ![id] = "absent"]
         [] status = "failed" ->
              /\ calls' = [calls EXCEPT ![p].pc = "done",
                                        ![p].result = Outcome("RequestFailed")]
              /\ activeTranscriptions' = [activeTranscriptions EXCEPT ![id] = "absent"]
         [] OTHER ->
              /\ calls' = [calls EXCEPT ![p].pc = "sleeping"]
              /\ activeTranscriptions' =
                   [activeTranscriptions EXCEPT ![id] = IF @ = "absent" THEN @ ELSE status]
  /\ UNCHANGED <<sessionVars, cleanupVars, saveToDisk>>

\* the polling-interval timer of a poll fires (lines 138-139, 184): the
\* loop condition is evaluated again
PollTimerFires(p, timedOut) ==
  /\ calls[p].kind = "poll"
  /\ calls[p].pc = "sleeping"
  /\ LET h == PollLoopHead(calls[p], concurrentRequests, timedOut) IN
       /\ calls' = [calls EXCEPT ![p] = h.call]
       /\ concurrentRequests' = h.count
       /\ activeTranscriptions' =
            IF h.delete THEN [activeTranscriptions EXCEPT ![calls[p].sid] = "absent"]
            ELSE activeTranscriptions
  /\ UNCHANGED <<sessionVars, cleanupVars, saveToDisk>>

\* cancelAllTranscriptions (lines 397-401): the requests in flight go on
CancelAllTranscriptions ==
  /\ activeTranscriptions' = [id \in TranscriptIds |-> "absent"]
  /\ concurrentRequests' = 0
  /\ UNCHANGED <<sessionVars, calls, cleanupVars, saveToDisk>>

PollStatuses == {"queued", "completed", "error", "failed"}

Next ==
  \/ \E sid \in SessionIds, users \in UserIdLists : InvokeJoin(sid, users)
  \/ \E sid \in SessionIds, users \in UserIdLists : InvokeStart(sid, users)
  \/ InvokeStopCommand
  \/ \E sid \in SessionIds : InvokeStopSession(sid)
  \/ \E sid \in SessionIds : InvokeStopTranscription(sid)
  \/ \E sid \in SessionIds, uid \in UserIds : InvokeAddUser(sid, uid)
  \/ \E sid \in SessionIds, uid \in UserIds : InvokeRemoveUser(sid, uid)
  \/ \E p \in Calls : Resume(p)
  \/ \E s \in Sockets : WsOpen(s)
  \/ \E s \in Sockets : WsMessageBegin(s)
  \/ \E s \in Sockets, m \in TurnMessages : WsMessageTurn(s, m)
  \/ \E s \in Sockets : WsMessageTermination(s)
  \/ \E s \in Sockets : WsError(s)
  \/ \E s \in Sockets : WsCloseFrame(s)
  \/ \E s \in Sockets : WsClose(s)
  \/ \E s \in Sockets : HandshakeTimeout(s)
  \/ \E raw \in RawFiles, channels \in ChannelCounts,
        sampleRate \in SampleRates, bitDepth \in BitDepths :
       InvokeFinalizeWav(raw, channels, sampleRate, bitDepth)
  \/ \E p \in Calls : RawFileChanges(p)
  \/ \E p \in Calls : FinalizeStatSettles(p)
  \/ \E p \in Calls : FinalizeOpenSettles(p)
  \/ \E p \in Calls : FinalizeReadSettles(p)
  \/ \E p \in Calls : FinalizeFinishSettles(p)
  \/ \E buffer \in Frames : InvokeComputeRms(buffer)
  \/ \E filePath \in Files, category \in Categories : TrackFile(filePath, category)
  \/ \E filePaths \in FileLists, now \in 1..MaxClock : ScheduleCleanup(filePaths, now)
  \/ \E taskId \in 1..MaxClock : InvokeCancelCleanup(taskId)
  \/ \E k \in DOMAIN cleanupTimers : CleanupTimerFires(k)
  \/ \E filePath \in Files : InvokeRemoveFile(filePath)
  \/ \E filePaths \in FileLists : InvokeRemoveFiles(filePaths)
  \/ \E category \in CategoryArgs : InvokeCleanupByCategory(category)
  \/ \E recordingInfos \in RecordingInfoLists : InvokeCleanupRecordingFiles(recordingInfos)
  \/ InvokeEmergencyCleanup
  \/ \E j \in DOMAIN removals : \E i \in DOMAIN removals[j].files : FsStatSettles(j, i)
  \/ \E j \in DOMAIN removals : \E i \in DOMAIN removals[j].files, ok \in BOOLEAN :
       FsUnlink(j, i, ok)
  \/ \E j \in DOMAIN removals : \E i \in DOMAIN removals[j].files : FsUnlinkSettles(j, i)
  \/ InvokeUpload
  \/ InvokeCreateRequest
  \/ \E transcriptId \in TranscriptIds : InvokePoll(transcriptId)
  \/ \E p \in Calls, ok \in BOOLEAN, transcriptId \in TranscriptIds :
       RequestSettles(p, ok, transcriptId)
  \/ \E p \in Calls, status \in PollStatuses : PollResponse(p, status)
  \/ \E p \in Calls, timedOut \in BOOLEAN : PollTimerFires(p, timedOut)
  \/ CancelAllTranscriptions

Spec == Init /\ [][Next]_vars

\* Starting sessions: /join and startStreamingSession with the handshake.
NextStart ==
  \/ \E sid \in SessionIds, users \in UserIdLists : InvokeJoin(sid, users)
  \/ \E sid \in SessionIds, users \in UserIdLists : InvokeStart(sid, users)
  \/ \E p \in Calls : Resume(p)
  \/ \E s \in Sockets : WsOpen(s)
  \/ \E s \in Sockets : WsMessageBegin(s)
  \/ \E s \in Sockets : WsError(s)
  \/ \E s \in Sockets : WsCloseFrame(s)
  \/ \E s \in Sockets : WsClose(s)
  \/ \E s \in Sockets : HandshakeTimeout(s)

SpecStart == Init /\ [][NextStart]_vars

\* the Turn message used where the text of the turns does not matter
PlainTurn ==
  [transcript |-> <<"a">>, turn_order |-> 0, hasWords |-> TRUE, words |-> <<"a">>,
   hasConfidence |-> TRUE, end_of_turn_confidence |-> 90, speaker |-> "A"]

\* One session from its start to its stop, under every stop operation.
NextStop ==
  \/ \E sid \in SessionIds, users \in UserIdLists : Len(calls) = 0 /\ InvokeStart(sid, users)
  \/ InvokeStopCommand
  \/ \E sid \in SessionIds : InvokeStopSession(sid)
  \/ \E sid \in SessionIds : InvokeStopTranscription(sid)
  \/ \E p \in Calls : Resume(p)
  \/ \E s \in Sockets : WsOpen(s)
  \/ \E s \in Sockets : WsMessageBegin(s)
  \/ \E s \in Sockets : WsMessageTurn(s, PlainTurn)
  \/ \E s \in Sockets : WsMessageTermination(s)
  \/ \E s \in Sockets : WsError(s)
  \/ \E s \in Sockets : WsCloseFrame(s)
  \/ \E s \in Sockets : WsClose(s)
  \/ \E s \in Sockets : HandshakeTimeout(s)

SpecStop == Init /\ [][NextStop]_vars

\* the 1000 ms timer a stop waits on (setTimeout, line 474) fires
GraceTimerFires == \E p \in Calls : calls[p].pc = "grace" /\ Resume(p)

\* the promise of finalizeWavFile a stop awaits (line 488) settles: the
\* file operations of lines 602-633 end with 'finish' or with an error
FinalizeSettles == \E p \in Calls : calls[p].pc = "finalizing" /\ Resume(p)

\* One session and its stops by stopStreamingTranscription, with the
\* timers of the event loop firing and the file operations ending.  A
\* Turn message is delivered while a stop of the socket is suspended.
NextGrace ==
  \/ \E sid \in SessionIds, users \in UserIdLists : Len(calls) = 0 /\ InvokeStart(sid, users)
  \/ \E sid \in SessionIds : InvokeStopTranscription(sid)
  \/ \E p \in Calls : Resume(p)
  \/ \E s \in Sockets : WsOpen(s)
  \/ \E s \in Sockets : WsMessageBegin(s)
  \/ \E s \in Sockets :
       /\ \E p \in Calls : calls[p].pc \in {"grace", "finalizing"} /\ calls[p].sock = s
       /\ ws[s].received = <<>>
       /\ WsMessageTurn(s, PlainTurn)
  \/ \E s \in Sockets : WsMessageTermination(s)
  \/ \E s \in Sockets : WsError(s)
  \/ \E s \in Sockets : WsCloseFrame(s)
  \/ \E s \in Sockets : WsClose(s)

SpecGrace ==
  Init /\ [][NextGrace]_vars /\ WF_vars(GraceTimerFires) /\ WF_vars(FinalizeSettles)

\* The turns of one session and the transcripts the stops of that session
\* build from them: the session is started once, and it is stopped while
\* it is in activeTranscribers.
NextTurns ==
  \/ \E users \in UserIdLists :
       Len(calls) = 0 /\ InvokeStart(CHOOSE sid \in SessionIds : TRUE, users)
  \/ \E sid \in SessionIds : activeTranscribers[sid] # 0 /\ InvokeStopTranscription(sid)
  \/ \E p \in Calls : Resume(p)
  \/ \E s \in Sockets : WsOpen(s)
  \/ \E s \in Sockets : WsMessageBegin(s)
  \/ \E s \in Sockets, m \in TurnMessages : WsMessageTurn(s, m)
  \/ \E s \in Sockets : WsError(s)
  \/ \E s \in Sockets : WsCloseFrame(s)
  \/ \E s \in Sockets : WsClose(s)

SpecTurns == Init /\ [][NextTurns]_vars

\* The process started with SAVE_RECORDINGS unset; the operations of the
\* specifications below do not read the setting.
InitNotSaving == Init /\ ~saveToDisk

\* The finalization of raw PCM files, with the files changing while a
\* finalization is suspended.  The calls are made one after the other
\* (every call has files of its own), each with one of WavConfigs.
NextWav ==
  \/ /\ \A p \in Calls : calls[p].pc = "done"
     /\ \E raw \in RawFiles, cfg \in WavConfigs :
          InvokeFinalizeWav(raw, cfg.channels, cfg.sampleRate, cfg.bitDepth)
  \/ \E p \in Calls : RawFileChanges(p)
  \/ \E p \in Calls : FinalizeStatSettles(p)
  \/ \E p \in Calls : FinalizeOpenSettles(p)
  \/ \E p \in Calls : FinalizeReadSettles(p)
  \/ \E p \in Calls : FinalizeFinishSettles(p)

SpecWav == InitNotSaving /\ [][NextWav]_vars

\* The activity value of PCM frames.
NextRms == \E buffer \in Frames : InvokeComputeRms(buffer)

SpecRms == Init /\ [][NextRms]_vars

\* The scheduled cleanups, their cancellations and their timers, with the
\* tracking of files and emergencyCleanup (which empties cleanupTasks), on
\* a file system whose unlink fails only for a file that is gone.  The
\* files are tracked under one category: emergencyCleanup takes them all.
NextCleanup ==
  \/ \E filePath \in Files : TrackFile(filePath, "temp")
  \/ \E filePaths \in FileLists, now \in 1..MaxClock : ScheduleCleanup(filePaths, now)
  \/ \E taskId \in 1..MaxClock : InvokeCancelCleanup(taskId)
  \/ \E k \in DOMAIN cleanupTimers : CleanupTimerFires(k)
  \/ InvokeEmergencyCleanup
  \/ \E j \in DOMAIN removals : \E i \in DOMAIN removals[j].files : FsStatSettles(j, i)
  \/ \E j \in DOMAIN removals : \E i \in DOMAIN removals[j].files : FsUnlink(j, i, TRUE)
  \/ \E j \in DOMAIN removals : \E i \in DOMAIN removals[j].files : FsUnlinkSettles(j, i)

SpecCleanup == InitNotSaving /\ [][NextCleanup]_vars

\* The requests to the transcription API and their counter.
NextRequests ==
  \/ InvokeUpload
  \/ InvokeCreateRequest
  \/ \E transcriptId \in TranscriptIds : InvokePoll(transcriptId)
  \/ \E p \in Calls, ok \in BOOLEAN, transcriptId \in TranscriptIds :
       RequestSettles(p, ok, transcriptId)
  \/ \E p \in Calls, status \in PollStatuses : PollResponse(p, status)
  \/ \E p \in Calls, timedOut \in BOOLEAN : PollTimerFires(p, timedOut)
  \/ CancelAllTranscriptions

SpecRequests == Init /\ [][NextRequests]_vars

\* the start calls made for session sid
StartsOf(sid) == {p \in Calls : calls[p].kind \in StartKinds /\ calls[p].sid = sid}

\* Two sessions side by side, each started once, their sockets closing or
\* failing under them or not, and their stops by stopStreamingTranscription.
NextTwo ==
  \/ \E sid \in SessionIds, users \in UserIdLists :
       StartsOf(sid) = {} /\ InvokeStart(sid, users)
  \/ \E sid \in SessionIds : activeTranscribers[sid] # 0 /\ InvokeStopTranscription(sid)
  \/ \E p \in Calls : Resume(p)
  \/ \E s \in Sockets : WsOpen(s)
  \/ \E s \in Sockets : WsMessageBegin(s)
  \/ \E s \in Sockets : WsMessageTurn(s, PlainTurn)
  \/ \E s \in Sockets : WsError(s)
  \/ \E s \in Sockets : WsCloseFrame(s)
  \/ \E s \in Sockets : WsClose(s)

SpecTwo == Init /\ [][NextTwo]_vars

\* ================================================================ claims
RegisteredFrom(s) ==
  \E i \in DOMAIN activeStreamingSessions : activeStreamingSessions[i].sock = s

FinalCalls == {p \in Calls : calls[p].result.kind = "final"}

TranscriptOf(m) == m.transcript

\* C3 as stated: the combined text of a final transcript is the texts of
\* the Turn messages received, joined by single spaces in receipt order.
C3_CombinedTextIsJoinOfTurns ==
  \A p \in FinalCalls :
    LET recv == calls[p].result.recv IN
      calls[p].result.combinedText =
        JoinSpace([i \in DOMAIN recv |-> TranscriptOf(recv[i])])

NonBlankTurn(m) == \E i \in DOMAIN m.transcript : m.transcript[i] # " "

\* C3 amended: the combined text of a final transcript is the texts of the
\* Turn messages with a non-blank text received before it was built, joined
\* by single spaces in receipt order, without leading and trailing blanks.
C3_CombinedTextOfNonBlankTurns ==
  \A p \in FinalCalls :
    LET kept == SelectSeq(calls[p].result.recv, NonBlankTurn) IN
      calls[p].result.combinedText =
        Trim(JoinSpace([i \in DOMAIN kept |-> TranscriptOf(kept[i])]))

\* a final transcript built after a blank turn and a turn whose text
\* starts with a blank were received
C3_Witness ==
  \E p \in FinalCalls :
    LET recv == calls[p].result.recv IN
      /\ Len(recv) = 2
      /\ ~NonBlankTurn(recv[1])
      /\ NonBlankTurn(recv[2]) /\ Head(recv[2].transcript) = " "
      /\ calls[p].result.combinedText = <<"b">>

\* text.split(/\s+/) without the empty strings: the words of a text
RECURSIVE WordsIn(_)
WordsIn(t) ==
  IF t = <<>> THEN 0
  ELSE IF Head(t) # " " /\ (Len(t) = 1 \/ t[2] = " ") THEN 1 + WordsIn(Tail(t))
  ELSE WordsIn(Tail(t))

ClaimedWords(m) == IF m.hasWords THEN Len(m.words) ELSE WordsIn(m.transcript)

\* C4: totalWords of a final transcript is the sum over the turns received
\* of the length of the word array, or of the whitespace-split word count
\* of the text when the turn carries no word array.
C4_TotalWordsWithFallback ==
  \A p \in FinalCalls :
    LET recv == calls[p].result.recv IN
      calls[p].result.totalWords = SumSeq([i \in DOMAIN recv |-> ClaimedWords(recv[i])])

\* C5: when the handshake timer fired, the open failed with a connection
\* timeout and no registry ever holds an entry made from that open.
C5_TimeoutLeavesNoEntry ==
  \A s \in Sockets :
    ws[s].timedOut =>
      /\ \A p \in Calls :
           (calls[p].kind \in StartKinds /\ calls[p].sock = s) =>
             (calls[p].pc = "done" /\ calls[p].result.error = "ConnectionTimeout")
      /\ activeTranscribers[ws[s].sessionId] # s
      /\ ~RegisteredFrom(s)

\* C6: when startStreamingSession has failed, neither registry holds an
\* entry made by that start.
C6_FailedStartLeavesNoEntry ==
  \A p \in Calls :
    (/\ calls[p].kind \in StartKinds
     /\ calls[p].pc = "done"
     /\ calls[p].result.kind \in {"threw", "SetupFailed"}) =>
      /\ activeTranscribers[calls[p].sid] # calls[p].sock
      /\ ~RegisteredFrom(calls[p].sock)

\* C7: when the handshake was acknowledged and the socket is open,
\* startStreamingSession returns with the session registered as active
\* with one subscription for each id of userIds.
C7_StartRegistersSession ==
  \A p \in Calls :
    (/\ calls[p].kind = "start"
     /\ calls[p].pc = "done"
     /\ ws[calls[p].sock].promise = "resolved"
     /\ ws[calls[p].sock].readyState = "OPEN") =>
      /\ calls[p].result.kind = "started"
      /\ \E i \in DOMAIN activeStreamingSessions :
           /\ activeStreamingSessions[i].sessionId = calls[p].sid
           /\ activeStreamingSessions[i].active
           /\ activeStreamingSessions[i].userStreams = Range(calls[p].users)

\* a stop of sid has completed with the final transcript of the session
StopCompleted(sid) ==
  \E p \in FinalCalls : calls[p].sid = sid /\ calls[p].pc = "done"

\* C9: a stop operation called on a session id whose stop has completed
\* does not throw, returns the result of a session that is not there
\* and changes neither registry nor any socket.
C9_SecondStopIsSafe ==
  [][\A sid \in SessionIds :
       (/\ StopCompleted(sid)
        /\ Len(calls') = Len(calls) + 1
        /\ calls'[Len(calls')].kind \in {"stopTranscription", "stopSession"}
        /\ calls'[Len(calls')].sid = sid) =>
         (/\ calls'[Len(calls')].pc = "done"
          /\ calls'[Len(calls')].result.kind \in {"empty", "null"}
          /\ UNCHANGED <<ws, activeTranscribers, activeStreamingSessions>>)]_vars

\* a session with a turn was stopped, and a later stopStreamingTranscription
\* of the same id has returned
C9_Witness ==
  \E p, q \in Calls :
    /\ p < q
    /\ calls[p].sid = calls[q].sid
    /\ calls[p].pc = "done" /\ calls[p].result.kind = "final"
    /\ calls[p].result.turns # <<>>
    /\ calls[q].kind = "stopTranscription"
    /\ calls[q].pc = "done" /\ calls[q].result.kind = "empty"

\* C10: for each session the Terminate control message is sent at most
\* once and at most one stop invocation builds the final transcript.
C10_OneTerminateOneTranscript ==
  \A s \in Sockets :
    /\ ws[s].terminates <= 1
    /\ Cardinality({p \in FinalCalls : calls[p].result.sock = s}) <= 1

\* C11: once stop has returned a Final Transcript, no later event changes
\* its turn list, combined text or statistics, and its turn list stays
\* consistent with its combined text.
C11_FinalTranscriptImmutable ==
  \A p \in FinalCalls :
    calls[p].pc = "done" =>
      /\ transcripts(calls[p].result) = calls[p].result.turns
      /\ calls[p].result.combinedText = CombinedText(transcripts(calls[p].result))
      /\ calls[p].result.totalWords = WordCount(transcripts(calls[p].result))

\* the stop that built the final transcript of call p found the socket
\* failed (CLOSING until its 'close' event) or closed: no Terminate was
\* ever written to it
AfterAbnormalClose(p) ==
  /\ calls[p].pc = "done"
  /\ ws[calls[p].result.sock].terminates = 0
  /\ ws[calls[p].result.sock].readyState \in {"CLOSING", "CLOSED"}

\* C12 as stated: when the socket closed or failed after k Turn messages
\* were received, a subsequent stop returns a final transcript whose turn
\* list is exactly those k turns in receipt order.
C12_AllTurnsAfterAbnormalClose ==
  \A p \in FinalCalls :
    AfterAbnormalClose(p) =>
      LET recv == calls[p].result.recv
          turns == calls[p].result.turns IN
        [i \in DOMAIN turns |-> turns[i].text] =
          [i \in DOMAIN recv |-> TranscriptOf(recv[i])]

\* C12 amended: when the socket closed or failed after k Turn messages were
\* received, a subsequent stop returns a final transcript whose turn list
\* is exactly those of the k turns that have a non-blank text, in receipt
\* order.
C12_NonBlankTurnsAfterAbnormalClose ==
  \A p \in FinalCalls :
    AfterAbnormalClose(p) =>
      LET kept == SelectSeq(calls[p].result.recv, NonBlankTurn)
          turns == calls[p].result.turns IN
        [i \in DOMAIN turns |-> turns[i].text] =
          [i \in DOMAIN kept |-> TranscriptOf(kept[i])]

\* the socket failed after a blank and a non-blank turn and its 'close'
\* event has not arrived; a stop after the failure returned the one turn
\* kept
C12_Witness ==
  \E p \in FinalCalls :
    /\ AfterAbnormalClose(p)
    /\ ws[calls[p].result.sock].readyState = "CLOSING"
    /\ Len(calls[p].result.recv) = 2
    /\ ~NonBlankTurn(calls[p].result.recv[1])
    /\ Len(calls[p].result.turns) = 1
    /\ calls[p].result.turns[1].text = calls[p].result.recv[2].transcript

\* the texts of a turn list
TextsOf(list) == [i \in DOMAIN list |-> list[i].text]

\* C16: at every point the turn list of a session is in receipt order:
\* it holds the accepted Turn messages in the order of their receipt, each
\* accepted Turn message is appended at the end, and no step modifies,
\* reorders or removes an entry of the list.
C16_TurnListAppendOnly ==
  /\ [](\A s \in Sockets :
         LET kept == SelectSeq(ws[s].received, NonBlankTurn) IN
           TextsOf(ws[s].transcripts) = [i \in DOMAIN kept |-> TranscriptOf(kept[i])])
  /\ [][\A s \in Sockets :
         LET old == ws[s].transcripts
             new == ws'[s].transcripts IN
           /\ Len(new) >= Len(old)
           /\ SubSeq(new, 1, Len(old)) = old
           /\ (Len(ws'[s].received) > Len(ws[s].received)
                 /\ NonBlankTurn(ws'[s].received[Len(ws'[s].received)])) =>
                (/\ Len(new) = Len(old) + 1
                 /\ new[Len(new)].text =
                      ws'[s].received[Len(ws'[s].received)].transcript)]_vars

\* two different turns were accepted on one socket
C16_Witness ==
  \E s \in Sockets :
    /\ Len(ws[s].transcripts) = 2
    /\ ws[s].transcripts[1].text # ws[s].transcripts[2].text

\* C17: within a session the turnOrder of the entries of the turn list is
\* monotonically non-decreasing in list order.
C17_TurnOrderNonDecreasing ==
  \A s \in Sockets :
    \A i, j \in DOMAIN ws[s].transcripts :
      i < j => ws[s].transcripts[i].turnOrder <= ws[s].transcripts[j].turnOrder

\* the socket of session s has closed
Closed(s) == ws[s].readyState = "CLOSED"

\* C14: once the socket of a session has closed, the session never becomes
\* connected again and its id is never entered in the registry again.
\* (No step of the program sends an audio frame: see connectAudioStream.)
C14_NoTransitionOutOfClosed ==
  [][\A s \in Sockets :
       Closed(s) =>
         LET sid == ws[s].sessionId IN
           /\ ws'[s].readyState = "CLOSED"
           /\ ~ws'[s].isConnected
           /\ \/ activeTranscribers'[sid] = activeTranscribers[sid]
              \/ activeTranscribers'[sid] = 0]_vars

\* C18: a stop on a session whose socket is open sends Terminate and
\* starts the bounded wait with the socket still open; when the wait ends
\* it closes the socket, whether or not a Termination message has arrived,
\* and goes on to return the final transcript, at once or, for a session
\* recorded to disk, when the recording has been finalized; and every stop
\* returns (a call that has left the wait and the finalization is done for
\* good, so no call is suspended forever exactly when there are again and
\* again no suspended calls).
C18_StopIsBounded ==
  /\ [][(/\ Len(calls') = Len(calls) + 1
         /\ calls'[Len(calls')].kind = "stopTranscription"
         /\ activeTranscribers[calls'[Len(calls')].sid] # 0
         /\ ws[activeTranscribers[calls'[Len(calls')].sid]].readyState = "OPEN") =>
          LET s == activeTranscribers[calls'[Len(calls')].sid] IN
            /\ calls'[Len(calls')].pc = "grace"
            /\ ws'[s].terminates = ws[s].terminates + 1
            /\ ws'[s].readyState = "OPEN"]_vars
  /\ [][\A p \in Calls :
         (calls[p].pc = "grace" /\ calls'[p].pc # "grace") =>
           /\ calls'[p].pc = IF ws[calls[p].sock].recording THEN "finalizing" ELSE "done"
           /\ calls'[p].pc = "done" => calls'[p].result.kind = "final"
           /\ ws[calls[p].sock].terminates >= 1
           /\ ws'[calls[p].sock].readyState \in {"CLOSING", "CLOSED"}]_vars
  /\ [][\A p \in Calls :
         (calls[p].pc = "finalizing" /\ calls'[p].pc # "finalizing") =>
           /\ calls'[p].pc = "done"
           /\ calls'[p].result.kind = "final"
           /\ ws'[calls[p].sock].readyState \in {"CLOSING", "CLOSED"}]_vars
  /\ []<>(\A p \in Calls : calls[p].pc \notin {"grace", "finalizing"})

\* a stop on an open socket has returned after its wait although no
\* Termination message arrived, leaving the socket closing
C18_Witness ==
  \E p \in FinalCalls :
    /\ calls[p].kind = "stopTranscription" /\ calls[p].pc = "done"
    /\ ws[calls[p].sock].terminates = 1
    /\ ~ws[calls[p].sock].terminationSeen
    /\ ws[calls[p].sock].readyState = "CLOSING"

\* C19: when the handshake timeout has expired and the failure has been
\* signalled to the caller, the socket of the failed open is not open.
C19_TimeoutReleasesSocket ==
  \A p \in Calls :
    (/\ calls[p].kind \in StartKinds
     /\ calls[p].pc = "done"
     /\ calls[p].result.error = "ConnectionTimeout") =>
      ws[calls[p].sock].readyState \in {"CLOSING", "CLOSED"}

\* the confidence values carried by the turns of a list
ConfidencesOf(list) ==
  LET carrying == SelectSeq(list, LAMBDA t : t.hasConfidence) IN
  [i \in DOMAIN carrying |-> carrying[i].confidence]

\* C23: the averageConfidence of a final transcript is the arithmetic mean
\* of the confidence values of its turns that carry one (mean * count =
\* sum), and 0 when no turn carries one.
C23_AverageConfidenceIsMean ==
  \A p \in FinalCalls :
    LET avg == calls[p].result.averageConfidence
        cs == ConfidencesOf(calls[p].result.turns) IN
      /\ avg.den > 0
      /\ IF Len(cs) = 0 THEN avg.num = 0
         ELSE avg.num * Len(cs) = SumSeq(cs) * avg.den

\* a final transcript with one turn that carries a confidence and one that
\* carries none, its average being the confidence of the first
C23_Witness ==
  \E p \in FinalCalls :
    LET turns == calls[p].result.turns IN
      /\ Len(turns) = 2
      /\ turns[1].hasConfidence /\ turns[1].confidence = 90
      /\ ~turns[2].hasConfidence
      /\ calls[p].result.averageConfidence = [num |-> 90, den |-> 1]

\* the stop of call p sent Terminate on an open socket and returned
AfterGracefulStop(p) ==
  /\ calls[p].pc = "done"
  /\ ws[calls[p].result.sock].terminates = 1

\* what the object returned by stopStreamingTranscription says about the
\* session, its identifier and its clock readings apart (lines 539-560)
Content(r) ==
  [combinedText |-> r.combinedText, transcripts |-> r.turns,
   totalWords |-> r.totalWords, participantCount |-> r.participantCount,
   averageConfidence |-> r.averageConfidence]

\* C27 as stated: a final transcript produced after the socket closed
\* unexpectedly is marked as derived from an abnormal close, so it differs
\* from every final transcript produced by a graceful stop.
C27_AbnormalCloseIsMarked ==
  \A p, q \in FinalCalls :
    AfterAbnormalClose(p) /\ AfterGracefulStop(q) =>
      Content(calls[p].result) # Content(calls[q].result)

\* what a reader of the file gets back from the bytes at a 0-based offset
readUInt16LE(bytes, offset) == bytes[offset + 1] + 256 * bytes[offset + 2]
readUInt32LE(bytes, offset) ==
  [hi |-> readUInt16LE(bytes, offset + 2), lo |-> readUInt16LE(bytes, offset)]

\* the finalizations that returned or threw
WavCalls == {p \in Calls : calls[p].result.kind = "wav"}

\* the finalizations of a raw file that existed when they were called
WavCallsOnFile == {p \in WavCalls : calls[p].result.args.raw.exists}

\* the WAV file of call p is N+44 bytes and its header, read back, carries
\* the arguments of the call, the rates derived from them and data size N
WavAsConfigured(p) ==
  LET r == calls[p].result
      a == r.args IN
    /\ r.written
    /\ r.size = WidePlus(a.dataSize, 44)
    /\ Len(r.header) = 44
    /\ readUInt16LE(r.header, 22) = a.channels
    /\ readUInt32LE(r.header, 24) = Wide(a.sampleRate)
    /\ readUInt32LE(r.header, 28) = Wide(a.sampleRate * a.channels * (a.bitDepth \div 8))
    /\ readUInt16LE(r.header, 32) = a.channels * (a.bitDepth \div 8)
    /\ readUInt16LE(r.header, 34) = a.bitDepth
    /\ readUInt32LE(r.header, 40) = a.dataSize

\* C28 as stated: for a raw PCM file of N bytes, the finalized WAV file is
\* exactly N+44 bytes and its header carries the configured channel count,
\* sample rate and bit depth, the byte rate and block align derived from
\* them, and data size N.
C28_WavOfAnySize == \A p \in WavCallsOnFile : WavAsConfigured(p)

\* the calls of computeRms
RmsCalls == {p \in Calls : calls[p].result.kind = "rms"}

\* sqrt(sumSq / divisor) / normaliser <= 1, i.e.
\* sumSq <= divisor * normaliser^2
AtMostOne(r) ==
  WideLeq(r.sumSq, WideTimes(r.divisor, Wide(r.normaliser * r.normaliser)))

\* C34: for every PCM frame of 16-bit samples, the activity value returned
\* by computeRms lies in [0,1] (it is a square root, hence never negative).
C34_RmsInUnitInterval ==
  \A p \in RmsCalls :
    /\ WideLeq(Wide(0), calls[p].result.sumSq)
    /\ AtMostOne(calls[p].result)

\* the calls of cancelScheduledCleanup that returned true
CancelledCalls ==
  {p \in Calls : calls[p].kind = "cancelCleanup" /\ calls[p].result.kind = "true"}

\* file i of removal j is removed from the disk by this step
Unlinks(j, i) ==
  /\ removals[j].pcs[i] = "unlink"
  /\ removals'[j] # removals[j]
  /\ removals[j].files[i] \in disk
  /\ removals[j].files[i] \notin disk'

\* C38: after cancelScheduledCleanup(taskId) has returned true, no file of
\* the task it cancelled is removed by the removal that the timer of that
\* task started.
C38_CancelledTaskNeverRemoved ==
  [][\A p \in CancelledCalls :
       \A j \in DOMAIN removals :
         removals[j].owner = [kind |-> "timer", id |-> calls[p].result.task.timer] =>
           \A i \in DOMAIN removals[j].files : ~Unlinks(j, i)]_vars

\* the API requests in flight: the calls between the increment of the
\* counter and the finally block of their request
InFlight == {p \in Calls : calls[p].kind \in RequestKinds /\ calls[p].pc = "inflight"}

\* C37: in every reachable state the concurrent-request counter equals the
\* number of API requests in flight and lies between 0 and the configured
\* maximum.
C37_CounterIsRequestsInFlight ==
  /\ concurrentRequests = Cardinality(InFlight)
  /\ concurrentRequests >= 0
  /\ concurrentRequests <= MaxConcurrent

\* a start or a stop of session sid has been invoked and has not returned
InProgress(sid) ==
  \E p \in Calls : /\ calls[p].kind \in StartKinds \cup StopKinds
                   /\ calls[p].sid = sid
                   /\ calls[p].pc # "done"

\* C36: in every reachable state in which no start or stop of a session is
\* in progress, the session id is in activeStreamingSessions if and only
\* if it is in activeTranscribers.
C36_RegistriesAgree ==
  \A sid \in SessionIds :
    ~InProgress(sid) =>
      ((\E i \in DOMAIN activeStreamingSessions :
           activeStreamingSessions[i].sessionId = sid)
         <=> activeTranscribers[sid] # 0)

====
